---------------------------- MODULE Spec2Model ----------------------------
(***************************************************************************)
(* A model of yakui's retained widget tree (yakui-core, dom/mod.rs):       *)
(* the generational arena of DomNodes, the traversal stack, the removed    *)
(* list, and the frame protocol start / begin_widget / end_widget /        *)
(* finish.                                                                 *)
(***************************************************************************)
EXTENDS Integers, Sequences, FiniteSets, TLC

(* ------------------------------ bounds -------------------------------- *)

\* Nodes ever inserted into the arena, the root included.
MaxCreated == 4

\* References to a bound Dom or InputState held at a time.
MaxRefs == 2

\* Characters in the text of a text box.
MaxChars == 2

(* ------------------------------ widgets ------------------------------- *)

\* The concrete widget types a caller may declare.
WidgetTypes == {"Foo", "Bar", "Baz"}

\* The props values a caller may pass to begin_widget.
Props == {1, 2}

\* The types and props of callers that compare two consecutive frames.
FrameTypes == {"Foo", "Bar"}

\* The props of callers whose props never vary.
FixedProps == {1}

\* Props held by an instance that T::new() built and update() never saw.
DefaultProps == 0

\* T::new(): a default instance of concrete type T.
NewWidget(T) == [type |-> T, props |-> DefaultProps]

\* widget.update(props): the instance keeps its type and takes the props.
UpdateWidget(w, p) == [w EXCEPT !.props = p]

RootWidget == [type |-> "Root", props |-> DefaultProps]

DummyWidget == [type |-> "Dummy", props |-> DefaultProps]

(* -------------------------------- ids --------------------------------- *)

\* A WidgetId wraps an arena index: a slot number and the generation of the
\* slot's occupant when the id was issued.
MkId(i, g) == [index |-> i, generation |-> g]

\* Option::None for an id.
NoId == MkId(0, 0)

(* ------------------------------- arena -------------------------------- *)

MkNode(w, p, ch, nc) == [widget |-> w, parent |-> p, children |-> ch, next_child |-> nc]

\* What an empty slot holds.
NoNode == MkNode(DummyWidget, NoId, << >>, 0)

EmptyArena == [slots |-> << >>, free |-> << >>]

\* Arena::contains(index): the slot is occupied by the generation the index names.
ArenaContains(ar, id) ==
    /\ id.index \in 1..Len(ar.slots)
    /\ ar.slots[id.index].occupied
    /\ ar.slots[id.index].generation = id.generation

\* Arena::get(index).unwrap(), for an id the arena contains.
ArenaGet(ar, id) == ar.slots[id.index].value

\* The id Arena::insert will issue: the most recently freed slot with its
\* generation advanced, or a new slot with the first generation.
ArenaNextId(ar) ==
    IF ar.free /= << >>
    THEN MkId(Head(ar.free), ar.slots[Head(ar.free)].generation + 1)
    ELSE MkId(Len(ar.slots) + 1, 1)

\* Arena::insert(value).
ArenaInsert(ar, node) ==
    LET id == ArenaNextId(ar)
        entry == [occupied |-> TRUE, generation |-> id.generation, value |-> node]
    IN  IF ar.free /= << >>
        THEN [slots |-> [ar.slots EXCEPT ![id.index] = entry], free |-> Tail(ar.free)]
        ELSE [slots |-> Append(ar.slots, entry), free |-> ar.free]

\* Arena::remove(index), for an id the arena contains: the slot is emptied,
\* keeps its generation and becomes the head of the free list.
ArenaRemove(ar, id) ==
    [slots |-> [ar.slots EXCEPT ![id.index] =
                    [occupied |-> FALSE, generation |-> id.generation, value |-> NoNode]],
     free |-> << id.index >> \o ar.free]

\* nodes.get_mut(id.index()) followed by an assignment to the node.
ArenaSet(ar, id, node) ==
    [ar EXCEPT !.slots[id.index].value = node]

\* The number of insertions the arena has seen: a slot's generation counts
\* the nodes that have occupied it.
RECURSIVE SumGenerations(_, _)
SumGenerations(slots, i) ==
    IF i = 0 THEN 0 ELSE slots[i].generation + SumGenerations(slots, i - 1)

Created(ar) == SumGenerations(ar.slots, Len(ar.slots))

\* Room for one more insertion within the bound of the model.
CanInsert(ar) == Created(ar) < MaxCreated

\* The ids of the occupied slots.
LiveIds(ar) ==
    {MkId(i, ar.slots[i].generation) : i \in {j \in 1..Len(ar.slots) : ar.slots[j].occupied}}

\* Arena::len().
ArenaLen(ar) == Cardinality(LiveIds(ar))

(* ------------------------------- state -------------------------------- *)

VARIABLES
    nodes,          \* DomInner.nodes: the arena of DomNodes
    stack,          \* DomInner.stack: ids of the widgets being built
    removed_nodes,  \* DomInner.removed_nodes
    phase,          \* "idle" between frames, "building" between start and finish
    panicked,       \* a failed unwrap / assertion has ended the program
    last,           \* what the last call did (observation only)
    destroyed,      \* the ids removed from the arena since start() (observation only)
    ever_destroyed, \* the ids removed from the arena since new() (observation only)
    declared,       \* per open scope (the root's first, then the stack's), the ids
                    \* begin_widget has returned in it this frame (observation only)
    decl,           \* the calls of the frame so far (observation only)
    prev_frame,     \* the frame before, when this frame declares the same tree
                    \* again (observation only)
    updating,       \* the begin_widget calls whose update has not returned: the id
                    \* and the detached widget each holds, outermost first
    borrow,         \* the borrow flag of the RefCell around DomInner
    entered_from,   \* per id on the stack, what current() was before its
                    \* begin_widget (observation only)
    input,          \* the InputState
    layout,         \* the LayoutDom of the last layout pass
    called,         \* what the last call into the InputState did (observation only)
    context,        \* the thread's CURRENT_DOM and CURRENT_INPUT (context.rs)
    context_call,   \* what the last call into context.rs did (observation only)
    hovered,        \* the widgets in the Dom whose last MouseEnter no MouseLeave
                    \* has followed (observation only)
    textbox         \* a TextBoxWidget (yakui-widgets, textbox.rs) and the call
                    \* that runs in it

input_vars == << input, layout, called, context, context_call, hovered, textbox >>

vars == << nodes, stack, removed_nodes, phase, panicked, last, destroyed, ever_destroyed,
          declared, decl, prev_frame, updating, borrow, entered_from, input_vars >>

\* DomInner.root: the first id the arena issues.
root == MkId(1, 1)

NoCall == [op |-> "new", path |-> "none", parent |-> NoId, index |-> 0,
           old |-> NoId, id |-> NoId, detached |-> DummyWidget, at_update |-> 0,
           T |-> "Root", props |-> DefaultProps]


(* --------------------------- tree operations -------------------------- *)

\* A faulty next_existing_widget that leaves the parent's cursor where it is.
next_existing_widget_NoAdvance(ar, parent_id) ==
    IF ~ArenaContains(ar, parent_id)
    THEN [panic |-> TRUE, found |-> FALSE, id |-> NoId, nodes |-> ar]
    ELSE LET parent == ArenaGet(ar, parent_id)
         IN  IF parent.next_child < Len(parent.children)
             THEN [panic |-> FALSE, found |-> TRUE,
                   id |-> parent.children[parent.next_child + 1], nodes |-> ar]
             ELSE [panic |-> FALSE, found |-> FALSE, id |-> NoId, nodes |-> ar]

\* A faulty next_existing_widget that never finds a child.
next_existing_widget_Missing(ar, parent_id) ==
    [panic |-> ~ArenaContains(ar, parent_id), found |-> FALSE, id |-> NoId, nodes |-> ar]

\* next_existing_widget: the child at the parent's cursor, if there is one;
\* the cursor moves past it. Unwrapping a parent that is gone panics.
next_existing_widget(ar, parent_id) ==
    IF ~ArenaContains(ar, parent_id)
    THEN [panic |-> TRUE, found |-> FALSE, id |-> NoId, nodes |-> ar]
    ELSE LET parent == ArenaGet(ar, parent_id)
         IN  IF parent.next_child < Len(parent.children)
             THEN [panic |-> FALSE, found |-> TRUE,
                   id |-> parent.children[parent.next_child + 1],
                   nodes |-> ArenaSet(ar, parent_id,
                                [parent EXCEPT !.next_child = parent.next_child + 1])]
             ELSE [panic |-> FALSE, found |-> FALSE, id |-> NoId, nodes |-> ar]

\* The parent's child list once new_widget has stored id in it: written at
\* the cursor when the cursor is inside the list, pushed otherwise.
PlaceChild(children, next_child, id) ==
    IF next_child < Len(children)
    THEN [children EXCEPT ![next_child + 1] = id]
    ELSE Append(children, id)

\* new_widget::<T>: a node holding a placeholder is inserted, its id is
\* stored in the parent's child list, the parent's cursor advances, and a
\* default T is handed back to be attached after its update.
new_widget(ar, parent_id, T) ==
    LET id == ArenaNextId(ar)
        inserted == ArenaInsert(ar, MkNode(DummyWidget, parent_id, << >>, 0))
    IN  IF ~ArenaContains(inserted, parent_id)
        THEN [panic |-> TRUE, nodes |-> inserted, id |-> id, widget |-> DummyWidget]
        ELSE LET parent == ArenaGet(inserted, parent_id)
             IN  [panic |-> FALSE,
                  nodes |-> ArenaSet(inserted, parent_id,
                      [parent EXCEPT
                          !.children = PlaceChild(parent.children, parent.next_child, id),
                          !.next_child = parent.next_child + 1]),
                  id |-> id,
                  widget |-> NewWidget(T)]

\* The loop of remove_recursive: every queued id is recorded; an id whose
\* node is still there has its children queued and is removed.
RECURSIVE RemoveQueue(_, _, _)
RemoveQueue(ar, removed, queue) ==
    IF queue = << >>
    THEN [nodes |-> ar, removed |-> removed]
    ELSE LET id == Head(queue)
             rem == Append(removed, id)
         IN  IF ~ArenaContains(ar, id)
             THEN RemoveQueue(ar, rem, Tail(queue))
             ELSE RemoveQueue(ArenaRemove(ar, id), rem,
                              Tail(queue) \o ArenaGet(ar, id).children)

\* A faulty remove_recursive that removes the node and forgets its children.
remove_recursive_Shallow(ar, removed, id) ==
    [nodes |-> IF ArenaContains(ar, id) THEN ArenaRemove(ar, id) ELSE ar,
     removed |-> Append(removed, id)]

\* remove_recursive(nodes, removed_nodes, id).
remove_recursive(ar, removed, id) == RemoveQueue(ar, removed, << id >>)

\* The loop of trim_children: every queued id is recorded and removed, and
\* its children are queued; removing an id that is not there panics.
RECURSIVE TrimQueue(_, _, _)
TrimQueue(ar, removed, queue) ==
    IF queue = << >>
    THEN [panic |-> FALSE, nodes |-> ar, removed |-> removed]
    ELSE LET child_id == Head(queue)
             rem == Append(removed, child_id)
         IN  IF ~ArenaContains(ar, child_id)
             THEN [panic |-> TRUE, nodes |-> ar, removed |-> rem]
             ELSE TrimQueue(ArenaRemove(ar, child_id), rem,
                            Tail(queue) \o ArenaGet(ar, child_id).children)

\* A faulty trim_children that removes the children from the cursor on and
\* leaves them in the child list.
trim_children_KeepList(ar, removed, id) ==
    IF ~ArenaContains(ar, id)
    THEN [panic |-> TRUE, nodes |-> ar, removed |-> removed]
    ELSE LET node == ArenaGet(ar, id)
         IN  IF node.next_child < Len(node.children)
             THEN LET to_drop == SubSeq(node.children, node.next_child + 1, Len(node.children))
                  IN  TrimQueue(ar, removed \o to_drop, to_drop)
             ELSE [panic |-> FALSE, nodes |-> ar, removed |-> removed]

\* trim_children(nodes, removed_nodes, id): the children from the cursor on
\* are recorded, cut off the list and removed with their descendants.
trim_children(ar, removed, id) ==
    IF ~ArenaContains(ar, id)
    THEN [panic |-> TRUE, nodes |-> ar, removed |-> removed]
    ELSE LET node == ArenaGet(ar, id)
         IN  IF node.next_child < Len(node.children)
             THEN LET to_drop == SubSeq(node.children, node.next_child + 1, Len(node.children))
                      cut == ArenaSet(ar, id,
                                [node EXCEPT !.children = SubSeq(node.children, 1, node.next_child)])
                  IN  TrimQueue(cut, removed \o to_drop, to_drop)
             ELSE [panic |-> FALSE, nodes |-> ar, removed |-> removed]

\* A faulty current() that answers with the outermost widget being built.
current_Bottom == IF stack /= << >> THEN stack[1] ELSE root

\* Dom::current(): the top of the traversal stack, or the root.
current == IF stack /= << >> THEN stack[Len(stack)] ELSE root

\* A faulty contains that looks at the slot and not at the generation.
contains_IgnoreGeneration(id) ==
    id.index \in 1..Len(nodes.slots) /\ nodes.slots[id.index].occupied

\* Dom::contains(id).
contains(id) == ArenaContains(nodes, id)

\* Dom::get(id) / Dom::get_mut(id): Some(node) or None.
get(id) == IF ArenaContains(nodes, id)
           THEN [some |-> TRUE, node |-> ArenaGet(nodes, id)]
           ELSE [some |-> FALSE, node |-> NoNode]

\* Dom::removed_nodes().
removed_ids == {removed_nodes[i] : i \in 1..Len(removed_nodes)}

\* A faulty type test that never lets a widget be reused.
SameType_Never(widget, T) == FALSE

\* widget.as_ref().type_id() == TypeId::of::<T>().
SameType(widget, T) == widget.type = T

\* The first block of begin_widget::<T>: the node to build is found or made,
\* and its widget is handed out detached from the tree.
\*   path "reuse":   a child of type T is at the cursor;
\*   path "replace": a child of another type is there, and is burnt down;
\*   path "create":  there is no child at the cursor.
\* fits tells whether the insertion, if one is made, is within the bounds.
BeginLookup(ar, removed, parent_id, T) ==
    LET ne == next_existing_widget(ar, parent_id)
        base == [panic |-> FALSE, fits |-> TRUE, nodes |-> ne.nodes, removed |-> removed,
                 id |-> ne.id, old |-> ne.id, widget |-> DummyWidget, path |-> "none"]
    IN  IF ne.panic THEN [base EXCEPT !.panic = TRUE]
        ELSE IF ne.found
        THEN IF ~ArenaContains(ne.nodes, ne.id)
             THEN [base EXCEPT !.panic = TRUE]
             ELSE LET node == ArenaGet(ne.nodes, ne.id)
                      widget == node.widget
                  IN  IF SameType(widget, T)
                      THEN [base EXCEPT
                               !.nodes = ArenaSet(ne.nodes, ne.id,
                                   [node EXCEPT !.widget = DummyWidget, !.next_child = 0]),
                               !.widget = widget,
                               !.path = "reuse"]
                      ELSE LET rr == remove_recursive(ne.nodes, removed, ne.id)
                               nw == new_widget(rr.nodes, parent_id, T)
                           IN  [base EXCEPT
                                   !.panic = nw.panic,
                                   !.fits = CanInsert(rr.nodes),
                                   !.nodes = nw.nodes,
                                   !.removed = rr.removed,
                                   !.id = nw.id,
                                   !.widget = nw.widget,
                                   !.path = "replace"]
        ELSE LET nw == new_widget(ne.nodes, parent_id, T)
             IN  [base EXCEPT
                     !.panic = nw.panic,
                     !.fits = CanInsert(ne.nodes),
                     !.nodes = nw.nodes,
                     !.id = nw.id,
                     !.widget = nw.widget,
                     !.path = "create"]


(* ------------------------------- layout ------------------------------- *)

Range(seq) == {seq[i] : i \in 1..Len(seq)}

\* The points of the surface a pointer may be at.
Points == {1, 2}

\* Option::None for a pointer position.
NoPoint == 0

\* The EventInterest flags that make a widget a candidate of the hit test.
MouseInterests == {"MOUSE_INSIDE", "MOUSE_OUTSIDE", "MOUSE_MOVE"}

\* Widget::event_interest() of the widget types: a Foo wants every mouse
\* event, a Bar mouse events inside it and the keyboard while focused, and
\* any other widget nothing.
EventInterestOf(type) ==
    CASE type = "Foo" -> {"MOUSE_INSIDE", "MOUSE_OUTSIDE", "MOUSE_MOVE"}
      [] type = "Bar" -> {"MOUSE_INSIDE", "FOCUSED_KEYBOARD"}
      [] OTHER -> {}

\* The rectangle the layout pass gives a widget: the root covers the
\* surface, another widget the points up to its props.
RectOf(widget) == IF widget.type = "Root" THEN Points ELSE 1..widget.props

\* The layout traversal: depth first through the child lists, parents before
\* children, over the nodes that are in the arena.
RECURSIVE Traversal(_, _)
Traversal(ar, todo) ==
    IF todo = << >> THEN << >>
    ELSE LET id == Head(todo)
         IN  IF ~ArenaContains(ar, id)
             THEN Traversal(ar, Tail(todo))
             ELSE << id >> \o Traversal(ar, ArenaGet(ar, id).children \o Tail(todo))

\* The LayoutDom a layout pass over the tree produces: a LayoutNode (rect,
\* clipped_by, event_interest) per widget, and interest_mouse, the widgets
\* with a mouse interest in traversal order. A widget is clipped by its parent.
LayoutOf(ar) ==
    LET order == Traversal(ar, << root >>)
        pair(id) == [id |-> id, interest |-> EventInterestOf(ArenaGet(ar, id).widget.type)]
        pairs == [i \in 1..Len(order) |-> pair(order[i])]
    IN  [interest_mouse |-> SelectSeq(pairs, LAMBDA e : e.interest \cap MouseInterests /= {}),
         nodes |-> [id \in Range(order) |->
                      [rect |-> RectOf(ArenaGet(ar, id).widget),
                       clipped_by |-> ArenaGet(ar, id).parent,
                       event_interest |-> EventInterestOf(ArenaGet(ar, id).widget.type)]]]

\* LayoutDom::get(id): Some(node) or None.
LayoutGet(lay, id) == id \in DOMAIN lay.nodes

(* ------------------------- the thread's context ----------------------- *)

\* The thread-local storages, and the Doms and InputStates an application
\* may try to bind; None is NoValue.
Storages == {"CURRENT_DOM", "CURRENT_INPUT"}

ContextValues == {"first", "second"}

NoValue == "None"

\* A storage, RefCell<Option<T>>: the value and the Refs handed out.
EmptyStorage == [value |-> NoValue, refs |-> 0]

\* No call into context.rs has been made.
NoContextCall == [op |-> "none", storage |-> "none", value |-> NoValue, ok |-> TRUE]

\* borrow(storage): a Ref to the bound value; a panic when none is bound.
borrow_storage(cell) ==
    IF cell.value = NoValue
    THEN [panic |-> TRUE, cell |-> cell]
    ELSE [panic |-> FALSE, cell |-> [cell EXCEPT !.refs = @ + 1]]

\* A faulty bind that takes the place of the value that is bound.
bind_Overwrite(cell, value) ==
    IF cell.refs > 0
    THEN [panic |-> TRUE, cell |-> cell]
    ELSE [panic |-> FALSE, cell |-> [cell EXCEPT !.value = value]]

\* bind(storage, value): borrow_mut panics while a Ref is out; a panic when
\* a value is bound; otherwise the value is stored.
bind(cell, value) ==
    IF cell.refs > 0 \/ cell.value /= NoValue
    THEN [panic |-> TRUE, cell |-> cell]
    ELSE [panic |-> FALSE, cell |-> [cell EXCEPT !.value = value]]

\* unbind(storage): borrow_mut panics while a Ref is out; take() panics
\* when nothing is bound; otherwise the storage is empty.
unbind(cell) ==
    IF cell.refs > 0 \/ cell.value = NoValue
    THEN [panic |-> TRUE, cell |-> cell]
    ELSE [panic |-> FALSE, cell |-> [cell EXCEPT !.value = NoValue]]

(* ------------------------------ the text box -------------------------- *)

\* A String is the list of the UTF-8 lengths of its characters: the text
\* box looks at byte offsets and character boundaries only.
CharLens == {1, 2}

Texts == UNION {[1..n -> CharLens] : n \in 0..MaxChars}

\* String::len(): the length in bytes.
RECURSIVE ByteLen(_)
ByteLen(text) == IF text = << >> THEN 0 ELSE Head(text) + ByteLen(Tail(text))

\* The characters of text that lie before the byte offset index.
CharsBefore(text, index) ==
    Cardinality({k \in 1..Len(text) : ByteLen(SubSeq(text, 1, k)) <= index})

\* str::is_char_boundary(index): the start, the end, or the first byte of a
\* character; false beyond the end.
is_char_boundary(text, index) ==
    \E k \in 0..Len(text) : ByteLen(SubSeq(text, 1, k)) = index

\* String::insert(idx, c): panics when idx is no character boundary.
insert(text, idx, c) ==
    IF ~is_char_boundary(text, idx) THEN [panic |-> TRUE, text |-> text]
    ELSE LET k == CharsBefore(text, idx)
         IN  [panic |-> FALSE,
              text |-> SubSeq(text, 1, k) \o << c >> \o SubSeq(text, k + 1, Len(text))]

\* String::replace_range(min..max, ""): panics when min or max is no
\* character boundary.
replace_range(text, min, max) ==
    IF ~is_char_boundary(text, min) \/ ~is_char_boundary(text, max)
    THEN [panic |-> TRUE, text |-> text]
    ELSE [panic |-> FALSE,
          text |-> SubSeq(text, 1, CharsBefore(text, min))
                   \o SubSeq(text, CharsBefore(text, max) + 1, Len(text))]

\* Option<String>::None of updated_text.
NoUpdate == << 0 >>

\* The bits of the usize that counts the iterations of delete.
UsizeBits == 3

\* TextBoxWidget::new(), with no call running in it: delta, remaining, end
\* and len are the locals of move_cursor and delete.
TextBoxNew ==
    [props |-> << >>, updated_text |-> NoUpdate, selected |-> FALSE, cursor |-> 0,
     pc |-> "idle", delta |-> 0, remaining |-> 0, end |-> 0, len |-> 0,
     response |-> "Bubble"]

\* self.updated_text.as_ref().unwrap_or(&self.props.text): the text shown.
Displayed(tb) == IF tb.updated_text = NoUpdate THEN tb.props ELSE tb.updated_text

(* ---------------------------- the input state ------------------------- *)

\* The mouse buttons of the model.
MouseButtons == {"One"}

\* InputState::new(): no pointer position, no button seen, empty hit and
\* entered lists, nothing selected.
InputNew ==
    [position |-> NoPoint,
     buttons |-> [b \in MouseButtons |-> "Missing"],
     mouse_hit |-> << >>,
     mouse_entered |-> << >>,
     mouse_entered_and_sunk |-> << >>,
     selection |-> NoId,
     last_selection |-> NoId]

\* No call into the InputState has been made since the last frame.
NoInputCall ==
    [op |-> "none", args |-> << >>, response |-> "Bubble", log |-> << >>, nested |-> FALSE]

\* A WidgetEvent: its kind, the flag it carries (focused for FocusChanged,
\* inside for MouseButtonChanged) and, for a button, whether it is down.
Ev(kind, flag, down) == [kind |-> kind, flag |-> flag, down |-> down]

FocusChanged(focused) == Ev("FocusChanged", focused, FALSE)

MouseButtonChangedEv(down, inside) == Ev("MouseButtonChanged", inside, down)

MouseEnter == Ev("MouseEnter", FALSE, FALSE)

MouseLeave == Ev("MouseLeave", FALSE, FALSE)

MouseMoved == Ev("MouseMoved", FALSE, FALSE)

MouseScrollEv == Ev("MouseScroll", FALSE, FALSE)

KeyChangedEv(down) == Ev("KeyChanged", FALSE, down)

TextInputEv == Ev("TextInput", FALSE, FALSE)

\* The calls into the Dom a widget's event handler may make: get_mut, and
\* with it every call that begins by borrowing the nodes (get, get_current,
\* contains, begin_widget, finish), and end_widget, which pops the stack first.
NestedCalls == {"get_mut", "end_widget"}

\* No handler calls into the Dom.
NoNested == [id |-> NoId, call |-> "none"]

\* Reverse of a sequence: iter().rev().
Reverse(seq) == [i \in 1..Len(seq) |-> seq[Len(seq) + 1 - i]]

\* The rectangle of a layout node constrained by the rectangles up its
\* clipped_by chain.
RECURSIVE ClipRect(_, _, _)
ClipRect(lay, node, rect) ==
    IF node.clipped_by = NoId THEN rect
    ELSE LET parent == lay.nodes[node.clipped_by]
         IN  ClipRect(lay, parent, rect \cap parent.rect)

\* A faulty hit test that looks at the widget's own rectangle only.
hit_test_Unclipped(lay, coords) ==
    LET ids == [i \in 1..Len(lay.interest_mouse) |-> lay.interest_mouse[i].id]
    IN  SelectSeq(Reverse(ids), LAMBDA id : coords \in lay.nodes[id].rect)

\* hit_test: the widgets of interest_mouse, last first, whose clipped
\* rectangle contains the point.
hit_test(lay, coords) ==
    LET ids == [i \in 1..Len(lay.interest_mouse) |-> lay.interest_mouse[i].id]
    IN  SelectSeq(Reverse(ids),
                  LAMBDA id : coords \in ClipRect(lay, lay.nodes[id], lay.nodes[id].rect))


(* ------------------------------ the calls ----------------------------- *)

\* A frame is "free" when the caller declares whatever it likes. To compare
\* consecutive frames, a finished free frame may be remembered: the next
\* frame is then a "replay", whose calls repeat the remembered frame's
\* nesting and widget types (with props of the caller's choice), and which
\* is "replayed" once it has finished.
NoFrame == [mode |-> "free", decl |-> << >>, nodes |-> EmptyArena]

EndCall == << "end", DefaultProps >>

\* Whether the caller may make this call now.
MayDeclare(call) ==
    \/ prev_frame.mode /= "replay"
    \/ /\ Len(decl) < Len(prev_frame.decl)
       /\ prev_frame.decl[Len(decl) + 1][1] = call[1]

\* Whether the caller may finish the frame now.
MayFinish ==
    \/ prev_frame.mode /= "replay"
    \/ Len(decl) = Len(prev_frame.decl)

\* DomInner::new(): the arena holds the root alone.
Init ==
    /\ nodes = ArenaInsert(EmptyArena, MkNode(RootWidget, NoId, << >>, 0))
    /\ stack = << >>
    /\ removed_nodes = << >>
    /\ phase = "idle"
    /\ panicked = FALSE
    /\ last = NoCall
    /\ destroyed = {}
    /\ ever_destroyed = {}
    /\ declared = << << >> >>
    /\ decl = << >>
    /\ prev_frame = NoFrame
    /\ updating = << >>
    /\ borrow = "free"
    /\ entered_from = << >>
    /\ input = InputNew
    /\ layout = LayoutOf(nodes)
    /\ called = NoInputCall
    /\ context = [s \in Storages |-> EmptyStorage]
    /\ context_call = NoContextCall
    /\ hovered = {}
    /\ textbox = TextBoxNew

\* Dom::start(): the root's cursor goes back to zero.
Start ==
    /\ ~panicked
    /\ phase = "idle"
    /\ phase' = "building"
    /\ nodes' = ArenaSet(nodes, root, [ArenaGet(nodes, root) EXCEPT !.next_child = 0])
    /\ last' = [NoCall EXCEPT !.op = "start"]
    /\ destroyed' = {}
    /\ declared' = << << >> >>
    /\ decl' = << >>
    /\ prev_frame' = IF prev_frame.mode = "replay" THEN prev_frame ELSE NoFrame
    /\ UNCHANGED << stack, removed_nodes, panicked, ever_destroyed >>
    /\ UNCHANGED << updating, borrow, entered_from, input_vars >>

\* Dom::begin_widget::<T>(props): look the node up or make it, enter it,
\* update the detached widget with the props and put it back.
BeginWidget(T, props) ==
    /\ ~panicked
    /\ phase = "building"
    /\ MayDeclare(<< T, props >>)
    /\ LET parent_id == current
           r == BeginLookup(nodes, removed_nodes, parent_id, T)
           widget == UpdateWidget(r.widget, props)
           call == [op |-> "begin", path |-> r.path, parent |-> parent_id,
                    index |-> IF ArenaContains(nodes, parent_id)
                              THEN ArenaGet(nodes, parent_id).next_child ELSE 0,
                    old |-> r.old, id |-> r.id, detached |-> r.widget,
                    at_update |-> IF ArenaContains(r.nodes, r.id)
                                  THEN ArenaGet(r.nodes, r.id).next_child ELSE 0,
                    T |-> T, props |-> props]
       IN  /\ r.fits
           /\ removed_nodes' = r.removed
           /\ destroyed' = destroyed \cup (LiveIds(nodes) \ LiveIds(r.nodes))
           /\ ever_destroyed' = ever_destroyed \cup (LiveIds(nodes) \ LiveIds(r.nodes))
           /\ decl' = Append(decl, << T, props >>)
           /\ IF r.panic
              THEN /\ panicked' = TRUE
                   /\ nodes' = r.nodes
                   /\ last' = [call EXCEPT !.op = "panic"]
                   /\ UNCHANGED << stack, declared, entered_from >>
              ELSE /\ panicked' = FALSE
                   /\ stack' = Append(stack, r.id)
                   /\ nodes' = ArenaSet(r.nodes, r.id,
                                  [ArenaGet(r.nodes, r.id) EXCEPT !.widget = widget])
                   /\ last' = call
                   /\ declared' = Append(
                          [declared EXCEPT ![Len(declared)] = Append(@, r.id)], << >>)
                   /\ entered_from' = Append(entered_from, parent_id)
    /\ UNCHANGED << phase, prev_frame, updating, borrow, input_vars >>

\* Dom::end_widget::<T>(id) for the widget on top of the stack: it is
\* popped and the children it did not declare this frame are trimmed.
EndWidget ==
    /\ ~panicked
    /\ phase = "building"
    /\ stack /= << >>
    /\ MayDeclare(EndCall)
    /\ LET id == stack[Len(stack)]
           t == trim_children(nodes, removed_nodes, id)
       IN  /\ stack' = SubSeq(stack, 1, Len(stack) - 1)
           /\ nodes' = t.nodes
           /\ removed_nodes' = t.removed
           /\ destroyed' = destroyed \cup (LiveIds(nodes) \ LiveIds(t.nodes))
           /\ ever_destroyed' = ever_destroyed \cup (LiveIds(nodes) \ LiveIds(t.nodes))
           /\ panicked' = t.panic
           /\ last' = [NoCall EXCEPT !.op = IF t.panic THEN "panic" ELSE "end",
                                     !.id = id,
                                     !.index = IF ArenaContains(nodes, id)
                                               THEN ArenaGet(nodes, id).next_child ELSE 0]
    /\ declared' = SubSeq(declared, 1, Len(declared) - 1)
    /\ decl' = Append(decl, EndCall)
    /\ entered_from' = SubSeq(entered_from, 1, Len(entered_from) - 1)
    /\ UNCHANGED << phase, prev_frame, updating, borrow, input_vars >>

\* Dom::finish(), every widget of the frame ended: the removed list is
\* cleared and the root's undeclared children are trimmed.
Finish(remember) ==
    /\ ~panicked
    /\ phase = "building"
    /\ stack = << >>
    /\ MayFinish
    /\ LET t == trim_children(nodes, << >>, root)
       IN  /\ nodes' = t.nodes
           /\ removed_nodes' = t.removed
           /\ destroyed' = destroyed \cup (LiveIds(nodes) \ LiveIds(t.nodes))
           /\ ever_destroyed' = ever_destroyed \cup (LiveIds(nodes) \ LiveIds(t.nodes))
           /\ panicked' = t.panic
           /\ last' = [NoCall EXCEPT !.op = IF t.panic THEN "panic" ELSE "finish",
                                     !.id = root,
                                     !.index = ArenaGet(nodes, root).next_child]
           /\ prev_frame' =
                IF t.panic THEN prev_frame
                ELSE IF prev_frame.mode = "replay"
                THEN [prev_frame EXCEPT !.mode = "replayed"]
                ELSE IF remember
                THEN [mode |-> "replay", decl |-> decl, nodes |-> t.nodes]
                ELSE NoFrame
    /\ phase' = "idle"
    /\ UNCHANGED << stack, declared, decl, updating, borrow, entered_from, input_vars >>

\* A faulty end_widget that trims the children before it looks at the stack.
end_widget_TrimFirst(st, ar, removed, id) ==
    LET t == trim_children(ar, removed, id)
    IN  IF st = << >>
        THEN [panic |-> TRUE, stack |-> st, nodes |-> t.nodes, removed |-> t.removed]
        ELSE [panic |-> t.panic \/ id /= st[Len(st)],
              stack |-> SubSeq(st, 1, Len(st) - 1),
              nodes |-> t.nodes, removed |-> t.removed]

\* Dom::end_widget::<T>(id) as a function of the stack, the arena and the
\* removed list: popping an empty stack panics; the popped id not being id
\* fails the assertion; only then are the children of id trimmed.
end_widget(st, ar, removed, id) ==
    IF st = << >>
    THEN [panic |-> TRUE, stack |-> st, nodes |-> ar, removed |-> removed]
    ELSE LET old_top == st[Len(st)]
             popped == SubSeq(st, 1, Len(st) - 1)
         IN  IF id /= old_top
             THEN [panic |-> TRUE, stack |-> popped, nodes |-> ar, removed |-> removed]
             ELSE LET t == trim_children(ar, removed, id)
                  IN  [panic |-> t.panic, stack |-> popped,
                       nodes |-> t.nodes, removed |-> t.removed]

\* The ids a caller may hold: those of the live nodes and of the destroyed ones.
KnownIds == LiveIds(nodes) \cup ever_destroyed

\* Dom::end_widget::<T>(id) out of turn: the stack is empty, or another
\* widget is on top of it.
EndWidgetUnbalanced(id) ==
    /\ ~panicked
    /\ IF stack = << >> THEN TRUE ELSE stack[Len(stack)] /= id
    /\ LET e == end_widget(stack, nodes, removed_nodes, id)
       IN  /\ stack' = e.stack
           /\ nodes' = e.nodes
           /\ removed_nodes' = e.removed
           /\ destroyed' = destroyed \cup (LiveIds(nodes) \ LiveIds(e.nodes))
           /\ ever_destroyed' = ever_destroyed \cup (LiveIds(nodes) \ LiveIds(e.nodes))
           /\ panicked' = e.panic
           /\ entered_from' = SubSeq(entered_from, 1, Len(e.stack))
           /\ declared' = SubSeq(declared, 1, Len(e.stack) + 1)
           /\ last' = [NoCall EXCEPT !.op = IF e.panic THEN "panic" ELSE "end",
                                     !.path = "unbalanced",
                                     !.id = id]
    /\ UNCHANGED << phase, decl, prev_frame, updating, borrow, input_vars >>

\* RefCell::borrow_mut() on the DomInner: granted when no borrow is out.
borrow_mut(flag) == flag = "free"

\* The borrow flag while a widget's update runs: the block of begin_widget
\* that borrowed the DomInner has ended by then.
BorrowDuringUpdate == "free"

\* A faulty reattachment that leaves the placeholder in the node.
Reattach_Forget(ar, id, widget) == ar

\* The last block of begin_widget: the updated widget is put back in its node.
Reattach(ar, id, widget) ==
    ArenaSet(ar, id, [ArenaGet(ar, id) EXCEPT !.widget = widget])

\* Dom::begin_widget::<T>(props) up to the call of widget.update(props):
\* the node is found or made and entered, its widget is out of the tree,
\* and the update runs. What the caller declares until BeginReturn is
\* declared from inside the update.
BeginEnter(T, props) ==
    /\ ~panicked
    /\ phase = "building"
    /\ LET parent_id == current
           r == BeginLookup(nodes, removed_nodes, parent_id, T)
           call == [op |-> "begin", path |-> r.path, parent |-> parent_id,
                    index |-> IF ArenaContains(nodes, parent_id)
                              THEN ArenaGet(nodes, parent_id).next_child ELSE 0,
                    old |-> r.old, id |-> r.id, detached |-> r.widget,
                    at_update |-> IF ArenaContains(r.nodes, r.id)
                                  THEN ArenaGet(r.nodes, r.id).next_child ELSE 0,
                    T |-> T, props |-> props]
       IN  IF ~borrow_mut(borrow)
           THEN /\ panicked' = TRUE
                /\ last' = [call EXCEPT !.op = "panic", !.path = "borrow"]
                /\ UNCHANGED << nodes, stack, removed_nodes, destroyed, ever_destroyed,
                                declared, decl, entered_from, updating, borrow >>
           ELSE /\ r.fits
                /\ removed_nodes' = r.removed
                /\ destroyed' = destroyed \cup (LiveIds(nodes) \ LiveIds(r.nodes))
                /\ ever_destroyed' = ever_destroyed \cup (LiveIds(nodes) \ LiveIds(r.nodes))
                /\ decl' = Append(decl, << T, props >>)
                /\ nodes' = r.nodes
                /\ IF r.panic
                   THEN /\ panicked' = TRUE
                        /\ last' = [call EXCEPT !.op = "panic"]
                        /\ UNCHANGED << stack, declared, entered_from, updating, borrow >>
                   ELSE /\ panicked' = FALSE
                        /\ stack' = Append(stack, r.id)
                        /\ last' = call
                        /\ declared' = Append(
                               [declared EXCEPT ![Len(declared)] = Append(@, r.id)], << >>)
                        /\ entered_from' = Append(entered_from, parent_id)
                        /\ updating' = Append(updating,
                               [id |-> r.id, widget |-> UpdateWidget(r.widget, props),
                                T |-> T, props |-> props])
                        /\ borrow' = BorrowDuringUpdate
    /\ UNCHANGED << phase, prev_frame, input_vars >>

\* The rest of begin_widget, once the update has returned (every widget
\* begun inside it has been ended): the widget is put back in its node.
BeginReturn ==
    /\ ~panicked
    /\ phase = "building"
    /\ updating /= << >>
    /\ stack /= << >>
    /\ stack[Len(stack)] = updating[Len(updating)].id
    /\ LET a == updating[Len(updating)]
           ok == borrow_mut(borrow) /\ ArenaContains(nodes, a.id)
       IN  /\ panicked' = ~ok
           /\ nodes' = IF ok THEN Reattach(nodes, a.id, a.widget) ELSE nodes
           /\ last' = [NoCall EXCEPT !.op = IF ok THEN "return" ELSE "panic",
                                     !.id = a.id, !.T = a.T, !.props = a.props]
    /\ updating' = SubSeq(updating, 1, Len(updating) - 1)
    /\ UNCHANGED << stack, removed_nodes, phase, destroyed, ever_destroyed, declared, decl,
                    prev_frame, borrow, entered_from, input_vars >>

\* end_widget for the widget on top of the stack, whose begin_widget has returned.
EndNested ==
    /\ stack /= << >>
    /\ IF updating = << >> THEN TRUE ELSE updating[Len(updating)].id /= stack[Len(stack)]
    /\ EndWidget

\* Frames of arbitrary widget types, each frame on its own.
Next ==
    \/ Start
    \/ \E T \in WidgetTypes, props \in FixedProps : BeginWidget(T, props)
    \/ EndWidget
    \/ Finish(FALSE)

Spec == Init /\ [][Next]_vars

\* Frames in which the caller may also end a widget out of turn.
NextMisuse ==
    \/ Start
    \/ \E T \in WidgetTypes, props \in FixedProps : BeginWidget(T, props)
    \/ EndWidget
    \/ Finish(FALSE)
    \/ \E id \in KnownIds : EndWidgetUnbalanced(id)

SpecMisuse == Init /\ [][NextMisuse]_vars

\* Frames whose widgets declare children from inside their update.
NextNested ==
    \/ Start
    \/ \E T \in FrameTypes, props \in FixedProps : BeginEnter(T, props)
    \/ BeginReturn
    \/ EndNested
    \/ Finish(FALSE)

SpecNested == Init /\ [][NextNested]_vars

\* Frames of varying props, a frame being now and then followed by a replay.
NextFrames ==
    \/ Start
    \/ \E T \in FrameTypes, props \in Props : BeginWidget(T, props)
    \/ EndWidget
    \/ \E remember \in BOOLEAN : Finish(remember)

SpecFrames == Init /\ [][NextFrames]_vars


(* ----------------------- the input state at work ---------------------- *)

\* The state a call into the InputState works on: the InputState itself,
\* the traversal stack and the borrow flag of the Dom's nodes, whether it
\* has panicked, the events delivered so far, the response of the last
\* handler and the overall response, and whether a handler has called into
\* the Dom.
NewRun(inp, st) ==
    [panic |-> FALSE, log |-> << >>, response |-> "Bubble", overall |-> "Bubble",
     inp |-> inp, stack |-> st, borrow |-> "free", nested |-> FALSE]

\* A faulty access that goes ahead whatever the borrow flag says.
nested_access_Proceeds(flag, call, st) == [panic |-> FALSE, stack |-> st]

\* A call into the Dom made by an event handler: get, get_mut, begin_widget
\* and finish borrow the nodes first and panic when they are borrowed;
\* end_widget pops the stack and then does the same.
nested_access(flag, call, st) ==
    IF borrow_mut(flag)
    THEN [panic |-> FALSE, stack |-> st]
    ELSE [panic |-> TRUE,
          stack |-> IF call = "end_widget" THEN SubSeq(st, 1, Len(st) - 1) ELSE st]

\* A faulty fire_event that runs the handler without entering the widget.
fire_event_NoEnter(run, id, event, h, nested) ==
    [run EXCEPT !.log = Append(@, [id |-> id, event |-> event,
                                   current |-> IF run.stack = << >> THEN root
                                               ELSE run.stack[Len(run.stack)],
                                   response |-> h[id]]),
                !.response = h[id]]

\* fire_event(dom, layout, id, node, event), node being the RefMut the
\* caller got from dom.get_mut(id): id is entered, the handler runs (h tells
\* what each widget's handler returns, nested which handler calls into the
\* Dom and how), and id is exited.
fire_event(run, id, event, h, nested) ==
    LET entered == Append(run.stack, id)
        held == [run EXCEPT !.log = Append(@, [id |-> id, event |-> event,
                                              current |-> entered[Len(entered)],
                                              response |-> "none"]),
                            !.stack = entered,
                            !.borrow = "mut"]
        returned == [held EXCEPT !.log[Len(held.log)].response = h[id],
                                !.stack = SubSeq(entered, 1, Len(entered) - 1),
                                !.borrow = "free",
                                !.response = h[id]]
    IN  IF nested.id = id
        THEN LET n == nested_access(held.borrow, nested.call, held.stack)
             IN  IF n.panic
                 THEN [held EXCEPT !.panic = TRUE, !.stack = n.stack, !.nested = TRUE]
                 ELSE [returned EXCEPT !.nested = TRUE]
        ELSE returned

\* A faulty loop that goes on after a widget has sunk the event.
RECURSIVE SinkLoop_NoBreak(_, _, _, _, _, _)
SinkLoop_NoBreak(run, ar, ids, event, h, nested) ==
    IF ids = << >> \/ run.panic THEN run
    ELSE IF ~ArenaContains(ar, Head(ids))
    THEN SinkLoop_NoBreak(run, ar, Tail(ids), event, h, nested)
    ELSE LET r == fire_event(run, Head(ids), event, h, nested)
         IN  SinkLoop_NoBreak(IF r.response = "Sink" THEN [r EXCEPT !.overall = "Sink"] ELSE r,
                              ar, Tail(ids), event, h, nested)

\* for &id in ids { if let Some(node) = dom.get_mut(id) { fire_event; break
\* if the response is Sink } }: the overall response is Sink when one sank.
RECURSIVE SinkLoop(_, _, _, _, _, _)
SinkLoop(run, ar, ids, event, h, nested) ==
    IF ids = << >> \/ run.panic THEN run
    ELSE IF ~ArenaContains(ar, Head(ids))
    THEN SinkLoop(run, ar, Tail(ids), event, h, nested)
    ELSE LET r == fire_event(run, Head(ids), event, h, nested)
         IN  IF r.panic THEN r
             ELSE IF r.response = "Sink" THEN [r EXCEPT !.overall = "Sink"]
             ELSE SinkLoop(r, ar, Tail(ids), event, h, nested)

\* for id in ids { fire_event on dom.get_mut(id) }, the responses ignored;
\* an id gone from the Dom is skipped, or panics where the code unwraps.
RECURSIVE EachLoop(_, _, _, _, _, _, _)
EachLoop(run, ar, ids, event, h, nested, unwrap) ==
    IF ids = << >> \/ run.panic THEN run
    ELSE IF ~ArenaContains(ar, Head(ids))
    THEN IF unwrap THEN [run EXCEPT !.panic = TRUE]
         ELSE EachLoop(run, ar, Tail(ids), event, h, nested, unwrap)
    ELSE EachLoop(fire_event(run, Head(ids), event, h, nested),
                  ar, Tail(ids), event, h, nested, unwrap)

\* The ids of interest_mouse, last first, whose interest holds the flag.
Interested(lay, flag) ==
    LET pairs == SelectSeq(Reverse(lay.interest_mouse), LAMBDA e : flag \in e.interest)
    IN  [i \in 1..Len(pairs) |-> pairs[i].id]

\* A faulty notify_selection that tells the last selection before the new one.
notify_selection_LossFirst(run, ar, h, nested) ==
    LET cur == run.inp.selection
        lst == run.inp.last_selection
        lost == IF lst = NoId THEN run
                ELSE EachLoop(run, ar, << lst >>, FocusChanged(FALSE), h, nested, TRUE)
        gained == IF cur = NoId THEN lost
                  ELSE EachLoop(lost, ar, << cur >>, FocusChanged(TRUE), h, nested, TRUE)
    IN  IF cur = lst THEN run
        ELSE IF gained.panic THEN gained
        ELSE [gained EXCEPT !.inp.last_selection = cur]

\* notify_selection: nothing when the selection is the last one; otherwise
\* FocusChanged(true) to the selected widget, FocusChanged(false) to the
\* last one, each unwrapped from the Dom, and the selection is committed.
notify_selection(run, ar, h, nested) ==
    LET cur == run.inp.selection
        lst == run.inp.last_selection
        gained == IF cur = NoId THEN run
                  ELSE EachLoop(run, ar, << cur >>, FocusChanged(TRUE), h, nested, TRUE)
        lost == IF lst = NoId THEN gained
                ELSE EachLoop(gained, ar, << lst >>, FocusChanged(FALSE), h, nested, TRUE)
    IN  IF cur = lst THEN run
        ELSE IF lost.panic THEN lost
        ELSE [lost EXCEPT !.inp.last_selection = cur]

\* send_mouse_move: MouseMoved to every widget with MOUSE_MOVE interest.
send_mouse_move(run, ar, lay, h, nested) ==
    EachLoop(run, ar, Interested(lay, "MOUSE_MOVE"), MouseMoved, h, nested, TRUE)

\* mouse_hit_test: the hit list is cleared and, when there is a pointer
\* position, filled by hit_test.
mouse_hit_test(run, lay) ==
    IF run.panic THEN run
    ELSE [run EXCEPT !.inp.mouse_hit =
             IF run.inp.position = NoPoint THEN << >>
             ELSE hit_test(lay, run.inp.position)]

\* A faulty loop that forgets that a hovered widget has sunk MouseEnter.
RECURSIVE EnterLoop_NoSticky(_, _, _, _, _)
EnterLoop_NoSticky(run, ar, hits, h, nested) ==
    IF hits = << >> \/ run.panic THEN run
    ELSE LET hit == Head(hits)
         IN  IF ~ArenaContains(ar, hit)
             THEN EnterLoop_NoSticky(run, ar, Tail(hits), h, nested)
             ELSE IF hit \notin Range(run.inp.mouse_entered)
             THEN LET pushed == [run EXCEPT !.inp.mouse_entered = Append(@, hit)]
                      r == fire_event(pushed, hit, MouseEnter, h, nested)
                  IN  IF r.panic THEN r
                      ELSE IF r.response = "Sink"
                      THEN [r EXCEPT !.inp.mouse_entered_and_sunk = Append(@, hit)]
                      ELSE EnterLoop_NoSticky(r, ar, Tail(hits), h, nested)
             ELSE EnterLoop_NoSticky(run, ar, Tail(hits), h, nested)

\* A faulty loop that goes on to the widgets beneath one that sank MouseEnter.
RECURSIVE EnterLoop_NoBreak(_, _, _, _, _)
EnterLoop_NoBreak(run, ar, hits, h, nested) ==
    IF hits = << >> \/ run.panic THEN run
    ELSE LET hit == Head(hits)
         IN  IF ~ArenaContains(ar, hit)
             THEN EnterLoop_NoBreak(run, ar, Tail(hits), h, nested)
             ELSE IF hit \notin Range(run.inp.mouse_entered)
             THEN LET pushed == [run EXCEPT !.inp.mouse_entered = Append(@, hit)]
                      r == fire_event(pushed, hit, MouseEnter, h, nested)
                  IN  IF r.panic THEN r
                      ELSE IF r.response = "Sink"
                      THEN EnterLoop_NoBreak(
                               [r EXCEPT !.inp.mouse_entered_and_sunk = Append(@, hit)],
                               ar, Tail(hits), h, nested)
                      ELSE EnterLoop_NoBreak(r, ar, Tail(hits), h, nested)
             ELSE IF hit \in Range(run.inp.mouse_entered_and_sunk)
             THEN run
             ELSE EnterLoop_NoBreak(run, ar, Tail(hits), h, nested)

\* A faulty send_mouse_enter that tells every hit widget on every move.
send_mouse_enter_Again(run, ar, h, nested) ==
    EachLoop(run, ar, run.inp.mouse_hit, MouseEnter, h, nested, FALSE)

\* The loop of send_mouse_enter over the hit list.
RECURSIVE EnterLoop(_, _, _, _, _)
EnterLoop(run, ar, hits, h, nested) ==
    IF hits = << >> \/ run.panic THEN run
    ELSE LET hit == Head(hits)
         IN  IF ~ArenaContains(ar, hit)
             THEN EnterLoop(run, ar, Tail(hits), h, nested)
             ELSE IF hit \notin Range(run.inp.mouse_entered)
             THEN LET pushed == [run EXCEPT !.inp.mouse_entered = Append(@, hit)]
                      r == fire_event(pushed, hit, MouseEnter, h, nested)
                  IN  IF r.panic THEN r
                      ELSE IF r.response = "Sink"
                      THEN [r EXCEPT !.inp.mouse_entered_and_sunk = Append(@, hit)]
                      ELSE EnterLoop(r, ar, Tail(hits), h, nested)
             ELSE IF hit \in Range(run.inp.mouse_entered_and_sunk)
             THEN run
             ELSE EnterLoop(run, ar, Tail(hits), h, nested)

\* send_mouse_enter.
send_mouse_enter(run, ar, h, nested) ==
    EnterLoop(run, ar, run.inp.mouse_hit, h, nested)

\* A faulty send_mouse_leave that tells the widgets and keeps them entered.
send_mouse_leave_NoRemove(run, ar, h, nested) ==
    EachLoop(run, ar,
             SelectSeq(run.inp.mouse_entered, LAMBDA id : id \notin Range(run.inp.mouse_hit)),
             MouseLeave, h, nested, FALSE)

\* A faulty send_mouse_leave that unwraps the widgets from the Dom.
send_mouse_leave_Unwrap(run, ar, h, nested) ==
    LET to_remove == SelectSeq(run.inp.mouse_entered,
                               LAMBDA id : id \notin Range(run.inp.mouse_hit))
        r == EachLoop(run, ar, to_remove, MouseLeave, h, nested, TRUE)
        keep(id) == id \notin Range(to_remove)
    IN  IF r.panic THEN r
        ELSE [r EXCEPT !.inp.mouse_entered = SelectSeq(@, keep),
                       !.inp.mouse_entered_and_sunk = SelectSeq(@, keep)]

\* send_mouse_leave: MouseLeave to the entered widgets that are not hit (if
\* they are in the Dom), which are then taken off both entered lists.
send_mouse_leave(run, ar, h, nested) ==
    LET to_remove == SelectSeq(run.inp.mouse_entered,
                               LAMBDA id : id \notin Range(run.inp.mouse_hit))
        r == EachLoop(run, ar, to_remove, MouseLeave, h, nested, FALSE)
        keep(id) == id \notin Range(to_remove)
    IN  IF r.panic THEN r
        ELSE [r EXCEPT !.inp.mouse_entered = SelectSeq(@, keep),
                       !.inp.mouse_entered_and_sunk = SelectSeq(@, keep)]

\* A faulty mouse_moved that tells of the move after the hit test, the
\* entering and the leaving.
mouse_moved_MoveLast(run, ar, lay, pos, h, nested) ==
    LET stored == [run EXCEPT !.inp.position = pos]
        tested == mouse_hit_test(stored, lay)
        entered == send_mouse_enter(tested, ar, h, nested)
        left == send_mouse_leave(entered, ar, h, nested)
    IN  send_mouse_move(left, ar, lay, h, nested)

\* mouse_moved: the position is stored, then send_mouse_move,
\* mouse_hit_test, send_mouse_enter and send_mouse_leave.
mouse_moved(run, ar, lay, pos, h, nested) ==
    LET stored == [run EXCEPT !.inp.position = pos]
        moved == send_mouse_move(stored, ar, lay, h, nested)
        tested == mouse_hit_test(moved, lay)
        entered == send_mouse_enter(tested, ar, h, nested)
    IN  send_mouse_leave(entered, ar, h, nested)

\* ButtonState::is_down.
is_down(state) == state \in {"JustDown", "Down"}

\* A faulty match that records an edge at every input.
button_edge_Always(state, down) == IF down THEN "JustDown" ELSE "JustUp"

\* The match of mouse_button_changed: a button not in the map is Up; the
\* state changes only when down differs from is_down.
button_edge(state, down) ==
    LET seen == IF state = "Missing" THEN "Up" ELSE state
    IN  IF is_down(seen) = down THEN seen
        ELSE IF down THEN "JustDown" ELSE "JustUp"

\* A faulty send_button_change that tells nobody outside once the event is sunk.
send_button_change_SinkSilences(run, ar, lay, down, h, nested) ==
    LET inside == SinkLoop(run, ar, run.inp.mouse_hit,
                           MouseButtonChangedEv(down, TRUE), h, nested)
        outside == SelectSeq(Interested(lay, "MOUSE_OUTSIDE"),
                             LAMBDA id : id \notin Range(run.inp.mouse_hit))
    IN  IF inside.overall = "Sink" THEN inside
        ELSE EachLoop(inside, ar, outside, MouseButtonChangedEv(down, FALSE), h, nested, FALSE)

\* send_button_change: the inside event down the hit list until one sinks
\* it, then the outside event to every widget with MOUSE_OUTSIDE interest
\* that is not hit.
send_button_change(run, ar, lay, down, h, nested) ==
    LET inside == SinkLoop(run, ar, run.inp.mouse_hit,
                           MouseButtonChangedEv(down, TRUE), h, nested)
        outside == SelectSeq(Interested(lay, "MOUSE_OUTSIDE"),
                             LAMBDA id : id \notin Range(run.inp.mouse_hit))
    IN  EachLoop(inside, ar, outside, MouseButtonChangedEv(down, FALSE), h, nested, FALSE)

\* A faulty mouse_button_changed that tells the widgets of edges only.
mouse_button_changed_EdgeOnly(run, ar, lay, button, down, h, nested) ==
    IF is_down(run.inp.buttons[button]) = down
    THEN run
    ELSE send_button_change(
             [run EXCEPT !.inp.buttons[button] = button_edge(@, down)],
             ar, lay, down, h, nested)

\* mouse_button_changed.
mouse_button_changed(run, ar, lay, button, down, h, nested) ==
    send_button_change(
        [run EXCEPT !.inp.buttons[button] = button_edge(@, down)],
        ar, lay, down, h, nested)

\* send_mouse_scroll.
send_mouse_scroll(run, ar, h, nested) ==
    SinkLoop(run, ar, run.inp.mouse_hit, MouseScrollEv, h, nested)

\* A faulty settle that lets go of a button that has just gone down.
settle_Release(state) ==
    CASE state = "JustDown" -> "Up"
      [] state = "JustUp" -> "Up"
      [] OTHER -> state

\* ButtonState::settle.
settle(state) ==
    CASE state = "JustDown" -> "Down"
      [] state = "JustUp" -> "Up"
      [] OTHER -> state

\* settle_buttons.
settle_buttons(inp) == [inp EXCEPT !.buttons = [b \in MouseButtons |-> settle(inp.buttons[b])]]

\* return self.fire_event(..): the response of a call is the handler's.
Responded(r) == IF r.panic THEN r ELSE [r EXCEPT !.overall = r.response]

\* The body keyboard_key_changed and text_input share: the selected widget,
\* if any, is unwrapped from the layout; if it declared FOCUSED_KEYBOARD it
\* is unwrapped from the Dom and gets the event; otherwise nothing happens.
to_selected(run, ar, lay, event, h, nested) ==
    IF run.inp.selection = NoId THEN run
    ELSE IF ~LayoutGet(lay, run.inp.selection) THEN [run EXCEPT !.panic = TRUE]
    ELSE IF "FOCUSED_KEYBOARD" \notin lay.nodes[run.inp.selection].event_interest THEN run
    ELSE IF ~ArenaContains(ar, run.inp.selection) THEN [run EXCEPT !.panic = TRUE]
    ELSE Responded(fire_event(run, run.inp.selection, event, h, nested))

\* keyboard_key_changed.
keyboard_key_changed(run, ar, lay, down, h, nested) ==
    to_selected(run, ar, lay, KeyChangedEv(down), h, nested)

\* text_input.
text_input(run, ar, lay, h, nested) ==
    to_selected(run, ar, lay, TextInputEv, h, nested)

(* -------------------------- frames in one step ------------------------ *)

\* A frame in progress after end_widget has returned e.
AfterEnd(f, e) ==
    [f EXCEPT !.panic = e.panic, !.stack = e.stack, !.nodes = e.nodes, !.removed = e.removed]

\* A frame in progress after begin_widget has looked up r and updated the
\* widget with props.
AfterBegin(f, r, props) ==
    IF r.panic \/ ~r.fits
    THEN [f EXCEPT !.panic = r.panic, !.fits = r.fits]
    ELSE [f EXCEPT !.nodes = Reattach(r.nodes, r.id, UpdateWidget(r.widget, props)),
                   !.removed = r.removed,
                   !.stack = Append(f.stack, r.id)]

\* One call of a frame: the end of the current widget, or the beginning of
\* a child of it.
RunCall(f, call) ==
    IF call = EndCall
    THEN AfterEnd(f, end_widget(f.stack, f.nodes, f.removed, f.stack[Len(f.stack)]))
    ELSE AfterBegin(f,
                    BeginLookup(f.nodes, f.removed,
                                IF f.stack /= << >> THEN f.stack[Len(f.stack)] ELSE root,
                                call[1]),
                    call[2])

\* The calls of a frame, one after the other, on the arena, the removed
\* list and the stack.
RECURSIVE RunCalls(_, _)
RunCalls(f, calls) ==
    IF calls = << >> \/ f.panic \/ ~f.fits THEN f
    ELSE RunCalls(RunCall(f, Head(calls)), Tail(calls))

\* A frame in progress after finish() has trimmed the root, t.
AfterTrim(f, t) ==
    [f EXCEPT !.panic = t.panic, !.nodes = t.nodes, !.removed = t.removed]

\* finish() at the end of the calls of a frame.
RunFinish(f) ==
    IF f.panic \/ ~f.fits THEN f
    ELSE AfterTrim(f, trim_children(f.nodes, << >>, root))

\* A whole frame: start(), the calls, finish().
RunFrame(ar, removed, calls) ==
    RunFinish(RunCalls([panic |-> FALSE, fits |-> TRUE,
                        nodes |-> ArenaSet(ar, root,
                                           [ArenaGet(ar, root) EXCEPT !.next_child = 0]),
                        removed |-> removed, stack |-> << >>],
                       calls))

\* The frames an application shows while input arrives: nothing; one Foo;
\* a narrow Foo and a Bar side by side; a Bar around a Foo; a Foo around
\* a Bar around a Foo; a Baz around a Foo.
Scripts ==
    { << >>,
      << << "Foo", 2 >>, EndCall >>,
      << << "Foo", 1 >>, EndCall, << "Bar", 2 >>, EndCall >>,
      << << "Bar", 2 >>, << "Foo", 1 >>, EndCall, EndCall >>,
      << << "Foo", 2 >>, << "Bar", 2 >>, << "Foo", 2 >>, EndCall, EndCall, EndCall >>,
      << << "Baz", 2 >>, << "Foo", 2 >>, EndCall, EndCall >> }

\* What a frame f leaves behind, and the layout pass that follows it.
Shown(f) ==
    /\ f.fits
    /\ nodes' = f.nodes
    /\ removed_nodes' = f.removed
    /\ stack' = f.stack
    /\ panicked' = f.panic
    /\ destroyed' = LiveIds(nodes) \ LiveIds(f.nodes)
    /\ ever_destroyed' = ever_destroyed \cup (LiveIds(nodes) \ LiveIds(f.nodes))
    /\ last' = [NoCall EXCEPT !.op = IF f.panic THEN "panic" ELSE "frame"]
    /\ layout' = IF f.panic THEN layout ELSE LayoutOf(f.nodes)

\* A frame of the application, from start() to finish(), and the layout
\* pass that follows it.
Frame(calls) ==
    /\ ~panicked
    /\ phase = "idle"
    /\ Shown(RunFrame(nodes, removed_nodes, calls))
    /\ decl' = calls
    /\ called' = NoInputCall
    /\ hovered' = hovered \cap LiveIds(nodes')
    /\ UNCHANGED << phase, declared, prev_frame, updating, borrow, entered_from, input,
                    context, context_call, textbox >>

(* ------------------------ calls into the input state ------------------ *)

\* The widgets an event may be delivered to.
Widgets == LiveIds(nodes) \ {root}

\* What the event handlers of the widgets return during one call: every
\* loop that looks at a response stops at the first Sink, so at most one
\* widget is seen to sink an event.
Handlers ==
    {[id \in Widgets |-> IF id = s THEN "Sink" ELSE "Bubble"] : s \in Widgets \cup {NoId}}

\* Handlers whose response nobody looks at.
AllBubble == [id \in Widgets |-> "Bubble"]

\* Which handler, if any, calls into the Dom, and how.
Nesteds == {NoNested} \cup {[id |-> id, call |-> c] : id \in Widgets, c \in NestedCalls}

\* A call into the InputState may be made between frames.
InputIdle == ~panicked /\ phase = "idle"

\* The widgets with an unmatched MouseEnter once the deliveries of log
\* have been made to widgets of which those of h had one.
RECURSIVE HoverAfter(_, _)
HoverAfter(h, log) ==
    IF log = << >> THEN h
    ELSE LET e == Head(log)
         IN  HoverAfter(IF e.event = MouseEnter THEN h \cup {e.id}
                        ELSE IF e.event = MouseLeave THEN h \ {e.id}
                        ELSE h,
                        Tail(log))

\* What a call into the InputState with the arguments args leaves behind.
CommitArgs(op, args, r) ==
    /\ input' = r.inp
    /\ hovered' = HoverAfter(hovered, r.log)
    /\ stack' = r.stack
    /\ borrow' = r.borrow
    /\ panicked' = r.panic
    /\ called' = [op |-> op, args |-> args, response |-> r.overall, log |-> r.log,
                  nested |-> r.nested]
    /\ UNCHANGED << nodes, removed_nodes, phase, last, destroyed, ever_destroyed, declared,
                    decl, prev_frame, updating, entered_from, layout, context, context_call,
                    textbox >>

\* What a call whose arguments do not matter later leaves behind.
Commit(op, r) == CommitArgs(op, << >>, r)

\* The selections set by the calls of set_selection that came directly
\* before this call, the last two of them at most.
Trail == IF called.op = "set_selection" THEN called.args ELSE << >>

\* A faulty set_selection that tells the widgets at once.
set_selection_Eager(run, id) ==
    notify_selection([run EXCEPT !.inp.selection = id], nodes, AllBubble, NoNested)

\* InputState::set_selection(id) as a function of the state.
set_selection(run, id) == [run EXCEPT !.inp.selection = id]

\* InputState::set_selection(id).
SetSelection(id) ==
    /\ InputIdle
    /\ CommitArgs("set_selection",
                  IF Trail = << >> THEN << id >> ELSE << Trail[Len(Trail)], id >>,
                  set_selection(NewRun(input, stack), id))

\* InputState::start(dom, layout).
InputStart(nested) ==
    /\ InputIdle
    /\ CommitArgs("start", Trail,
                  notify_selection(NewRun(input, stack), nodes, AllBubble, nested))

\* InputState::finish().
InputFinish ==
    /\ InputIdle
    /\ Commit("finish", [NewRun(input, stack) EXCEPT !.inp = settle_buttons(input)])

\* handle_event(dom, layout, Event::CursorMoved(pos)): the response is Bubble.
CursorMoved(pos, h, nested) ==
    /\ InputIdle
    /\ CommitArgs("CursorMoved", << pos >>,
              [mouse_moved(NewRun(input, stack), nodes, layout, pos, h, nested)
                  EXCEPT !.overall = "Bubble"])

\* handle_event(dom, layout, Event::MouseButtonChanged { button, down }).
MouseButtonChanged(button, down, h, nested) ==
    /\ InputIdle
    /\ CommitArgs("MouseButtonChanged", << button, down >>,
              mouse_button_changed(NewRun(input, stack), nodes, layout, button, down, h, nested))

\* handle_event(dom, layout, Event::MouseScroll { delta }).
MouseScroll(h, nested) ==
    /\ InputIdle
    /\ Commit("MouseScroll", send_mouse_scroll(NewRun(input, stack), nodes, h, nested))

\* handle_event(dom, layout, Event::KeyChanged { key, down }).
KeyChanged(down, h, nested) ==
    /\ InputIdle
    /\ CommitArgs("KeyChanged", << down >>,
                  keyboard_key_changed(NewRun(input, stack), nodes, layout, down, h, nested))

\* handle_event(dom, layout, Event::TextInput(c)).
TextInput(h, nested) ==
    /\ InputIdle
    /\ Commit("TextInput", text_input(NewRun(input, stack), nodes, layout, h, nested))

\* Frames, selections and the focus notifications of start().
NextFocus ==
    \/ \E calls \in Scripts : Frame(calls)
    \/ \E id \in Widgets \cup {NoId} : SetSelection(id)
    \/ InputStart(NoNested)

SpecFocus == Init /\ [][NextFocus]_vars

\* Frames and the pointer: moves, buttons, scrolling, and the settling of
\* the buttons at the end of a frame.
NextPointer ==
    \/ \E calls \in Scripts : Frame(calls)
    \/ \E pos \in Points \cup {NoPoint}, h \in Handlers : CursorMoved(pos, h, NoNested)
    \/ \E button \in MouseButtons, down \in BOOLEAN, h \in Handlers :
          MouseButtonChanged(button, down, h, NoNested)
    \/ \E h \in Handlers : MouseScroll(h, NoNested)
    \/ InputFinish

SpecPointer == Init /\ [][NextPointer]_vars

\* Frames, selections and the keyboard.
NextKeyboard ==
    \/ \E calls \in Scripts : Frame(calls)
    \/ \E id \in Widgets \cup {NoId} : SetSelection(id)
    \/ \E down \in BOOLEAN, h \in Handlers : KeyChanged(down, h, NoNested)
    \/ \E h \in Handlers : TextInput(h, NoNested)

SpecKeyboard == Init /\ [][NextKeyboard]_vars

\* Frames whose widgets reach beyond their parents: a wide Foo in a narrow
\* Foo, the same inside a wide Foo, and a wide Foo in a narrow Baz.
ClipScripts ==
    { << << "Foo", 1 >>, << "Foo", 2 >>, EndCall, EndCall >>,
      << << "Foo", 2 >>, << "Foo", 1 >>, << "Foo", 2 >>, EndCall, EndCall, EndCall >>,
      << << "Baz", 1 >>, << "Foo", 2 >>, EndCall, EndCall >> }

\* Frames of every shape, and pointer moves over them.
NextHitTest ==
    \/ \E calls \in Scripts \cup ClipScripts : Frame(calls)
    \/ \E pos \in Points \cup {NoPoint}, h \in Handlers : CursorMoved(pos, h, NoNested)

SpecHitTest == Init /\ [][NextHitTest]_vars

\* The frames of an application that shows a Foo and a Bar, side by side or
\* the Foo in the Bar.
DeliveryScripts ==
    { << << "Foo", 1 >>, EndCall, << "Bar", 2 >>, EndCall >>,
      << << "Bar", 2 >>, << "Foo", 1 >>, EndCall, EndCall >> }

\* Frames and every call that delivers events: start(), and handle_event
\* with each kind of event.
NextDelivery ==
    \/ \E calls \in DeliveryScripts : Frame(calls)
    \/ \E id \in Widgets \cup {NoId} : SetSelection(id)
    \/ InputStart(NoNested)
    \/ \E pos \in Points \cup {NoPoint}, h \in Handlers : CursorMoved(pos, h, NoNested)
    \/ \E button \in MouseButtons, down \in BOOLEAN, h \in Handlers :
          MouseButtonChanged(button, down, h, NoNested)
    \/ \E h \in Handlers : MouseScroll(h, NoNested)
    \/ \E down \in BOOLEAN, h \in Handlers : KeyChanged(down, h, NoNested)
    \/ \E h \in Handlers : TextInput(h, NoNested)

SpecDelivery == Init /\ [][NextDelivery]_vars

\* Frames, and pointer events whose handlers may call into the Dom.
NextReentry ==
    \/ \E calls \in Scripts : Frame(calls)
    \/ \E pos \in Points \cup {NoPoint}, h \in Handlers, nested \in Nesteds :
          CursorMoved(pos, h, nested)
    \/ \E h \in Handlers, nested \in Nesteds : MouseScroll(h, nested)

SpecReentry == Init /\ [][NextReentry]_vars

(* ----------------------- calls into the context ----------------------- *)

\* What a call into context.rs leaves behind.
ContextCommit(op, storage, value, r) ==
    /\ context' = [context EXCEPT ![storage] = r.cell]
    /\ panicked' = r.panic
    /\ context_call' = [op |-> op, storage |-> storage, value |-> value, ok |-> ~r.panic]
    /\ UNCHANGED << nodes, stack, removed_nodes, phase, last, destroyed, ever_destroyed,
                    declared, decl, prev_frame, updating, borrow, entered_from,
                    input, layout, called, hovered, textbox >>

\* bind_dom(dom) / bind_input(input).
Bind(storage, value) ==
    /\ ~panicked
    /\ ContextCommit("bind", storage, value, bind(context[storage], value))

\* unbind_dom() / unbind_input().
Unbind(storage) ==
    /\ ~panicked
    /\ ContextCommit("unbind", storage, NoValue, unbind(context[storage]))

\* dom() / input(): the caller keeps the Ref.
Borrow(storage) ==
    /\ ~panicked
    /\ context[storage].refs < MaxRefs
    /\ ContextCommit("borrow", storage, NoValue, borrow_storage(context[storage]))

\* The caller drops a Ref it got from dom() / input().
Release(storage) ==
    /\ ~panicked
    /\ context[storage].refs > 0
    /\ ContextCommit("release", storage, NoValue,
                     [panic |-> FALSE, cell |-> [context[storage] EXCEPT !.refs = @ - 1]])

\* The calls into context.rs, in any order.
NextContext ==
    \/ \E storage \in Storages, value \in ContextValues : Bind(storage, value)
    \/ \E storage \in Storages : Unbind(storage)
    \/ \E storage \in Storages : Borrow(storage)
    \/ \E storage \in Storages : Release(storage)

SpecContext == Init /\ [][NextContext]_vars

(* ------------------------ calls into the text box --------------------- *)

\* What a step of a call into the text box leaves behind.
TextBoxCommit(tb, inp, panic) ==
    /\ textbox' = tb
    /\ input' = inp
    /\ panicked' = panic
    /\ UNCHANGED << nodes, stack, removed_nodes, phase, last, destroyed, ever_destroyed,
                    declared, decl, prev_frame, updating, borrow, entered_from,
                    layout, called, context, context_call, hovered >>

\* TextBoxWidget::update(props): the props are replaced, the edited text
\* and the cursor stay.
TextBoxUpdate(props) ==
    /\ ~panicked
    /\ textbox.pc = "idle"
    /\ TextBoxCommit([textbox EXCEPT !.props = props], input, FALSE)

\* The keys event() tells apart; Enter stands for NumpadEnter and Escape
\* too, and Other for the rest.
KeyCodes == {"ArrowLeft", "ArrowRight", "Backspace", "Delete", "Home", "End", "Enter", "Other"}

\* move_cursor(delta) up to its loop.
move_cursor(tb, delta) ==
    [tb EXCEPT !.pc = "move_cursor", !.delta = delta, !.remaining = 1]

\* delete(dir) up to its loop: the edited text is there from now on, and
\* end starts at the cursor, the anchor.
delete(tb, dir) ==
    [tb EXCEPT !.updated_text = Displayed(tb), !.pc = "delete", !.delta = dir,
               !.remaining = 1, !.end = tb.cursor, !.len = 0]

\* TextBoxWidget::home().
home(tb) == [tb EXCEPT !.cursor = 0]

\* TextBoxWidget::end().
end(tb) == [tb EXCEPT !.cursor = ByteLen(Displayed(tb))]

\* event(ctx, KeyChanged { key, down }).
TextBoxKey(key, down) ==
    /\ ~panicked
    /\ textbox.pc = "idle"
    /\ LET tb == [textbox EXCEPT !.response = "Sink"]
       IN  TextBoxCommit(
               IF ~down THEN tb
               ELSE CASE key = "ArrowLeft" -> move_cursor(tb, -1)
                      [] key = "ArrowRight" -> move_cursor(tb, 1)
                      [] key = "Backspace" -> delete(tb, -1)
                      [] key = "Delete" -> delete(tb, 1)
                      [] key = "Home" -> home(tb)
                      [] key = "End" -> end(tb)
                      [] OTHER -> tb,
               IF down /\ key = "Enter" THEN [input EXCEPT !.selection = NoId] ELSE input,
               FALSE)

\* The arm of event() for TextInput(c) with a character of c bytes that is
\* no control character.
text_input_char(tb, c) ==
    LET text == Displayed(tb)
        r == IF text = << >> THEN [panic |-> FALSE, text |-> << c >>]
             ELSE insert(text, tb.cursor, c)
    IN  [panic |-> r.panic,
         tb |-> [tb EXCEPT !.updated_text = r.text, !.cursor = tb.cursor + c,
                           !.response = "Sink"]]

\* event(ctx, TextInput(c)): c = 0 is a control character.
TextBoxText(c) ==
    /\ ~panicked
    /\ textbox.pc = "idle"
    /\ Len(Displayed(textbox)) < MaxChars
    /\ IF c = 0
       THEN TextBoxCommit([textbox EXCEPT !.response = "Bubble"], input, FALSE)
       ELSE TextBoxCommit(text_input_char(textbox, c).tb, input,
                          text_input_char(textbox, c).panic)

\* event(ctx, FocusChanged(focused)).
TextBoxFocus(focused) ==
    /\ ~panicked
    /\ textbox.pc = "idle"
    /\ TextBoxCommit([textbox EXCEPT !.selected = focused, !.response = "Sink"], input, FALSE)

\* The return of move_cursor and delete: their locals are gone.
Returned(tb) ==
    [tb EXCEPT !.pc = "idle", !.delta = 0, !.remaining = 0, !.end = 0, !.len = 0]

\* cursor.saturating_add(delta.signum()).min(props.text.len()).max(0).
Clamped(tb, from) ==
    LET moved == from + tb.delta
        high == IF moved < ByteLen(tb.props) THEN moved ELSE ByteLen(tb.props)
    IN  IF high > 0 THEN high ELSE 0

\* One iteration of the loop of move_cursor, and the return when none
\* remains.
MoveCursorStep ==
    /\ ~panicked
    /\ textbox.pc = "move_cursor"
    /\ LET cursor == Clamped(textbox, textbox.cursor)
           remaining == IF is_char_boundary(Displayed(textbox), cursor)
                        THEN textbox.remaining - 1 ELSE textbox.remaining
       IN  TextBoxCommit(IF remaining > 0
                         THEN [textbox EXCEPT !.cursor = cursor, !.remaining = remaining]
                         ELSE Returned([textbox EXCEPT !.cursor = cursor]),
                         input, FALSE)

\* The end of delete, the loop left with end and len: Backspace takes the
\* cursor back by len, and the bytes between anchor and end are cut out.
delete_range(tb, end_, len) ==
    LET anchor == tb.cursor
        cursor == IF tb.delta < 0
                  THEN (IF anchor > len THEN anchor - len ELSE 0)
                  ELSE anchor
        min == IF anchor < end_ THEN anchor ELSE end_
        max == IF anchor < end_ THEN end_ ELSE anchor
        r == replace_range(tb.updated_text, min, max)
    IN  [panic |-> r.panic,
         tb |-> Returned([tb EXCEPT !.cursor = cursor, !.updated_text = r.text])]

\* One iteration of the loop of delete, and the end of delete when none
\* remains.
DeleteStep ==
    /\ ~panicked
    /\ textbox.pc = "delete"
    /\ LET end_ == Clamped(textbox, textbox.end)
           len == (textbox.len + 1) % (2 ^ UsizeBits)
           remaining == IF is_char_boundary(textbox.updated_text, end_)
                        THEN textbox.remaining - 1 ELSE textbox.remaining
       IN  IF remaining > 0
           THEN TextBoxCommit([textbox EXCEPT !.end = end_, !.len = len,
                                              !.remaining = remaining],
                              input, FALSE)
           ELSE TextBoxCommit(delete_range(textbox, end_, len).tb, input,
                              delete_range(textbox, end_, len).panic)

\* A text box that is updated, focused and edited; a call that runs in it
\* goes on running.
NextTextBox ==
    \/ \E props \in Texts : TextBoxUpdate(props)
    \/ \E key \in KeyCodes, down \in BOOLEAN : TextBoxKey(key, down)
    \/ \E c \in CharLens \cup {0} : TextBoxText(c)
    \/ \E focused \in BOOLEAN : TextBoxFocus(focused)
    \/ MoveCursorStep
    \/ DeleteStep

SpecTextBox == Init /\ [][NextTextBox]_vars /\ WF_vars(MoveCursorStep \/ DeleteStep)

(* ------------------------- notions of the claims ---------------------- *)

\* id and everything below it through child lists.
RECURSIVE Subtree(_, _)
Subtree(ar, id) ==
    {id} \cup (IF ArenaContains(ar, id)
               THEN UNION {Subtree(ar, c) : c \in Range(ArenaGet(ar, id).children)}
               ELSE {})

\* How often id occurs in a list.
Occurrences(seq, id) == Cardinality({i \in 1..Len(seq) : seq[i] = id})

\* This step is a call of begin_widget / of end_widget.
IsBegin == Len(decl') = Len(decl) + 1 /\ decl'[Len(decl')][1] \in WidgetTypes

IsEnd == Len(decl') = Len(decl) + 1 /\ decl'[Len(decl')] = EndCall

\* The type and props the begin_widget of this step is called with.
BeginType == decl'[Len(decl')][1]

BeginProps == decl'[Len(decl')][2]

\* Before the call: the parent's cursor, and whether a child is there.
Cursor == ArenaGet(nodes, current).next_child

HasChildAtCursor == Cursor < Len(ArenaGet(nodes, current).children)

ChildAtCursor == ArenaGet(nodes, current).children[Cursor + 1]

\* begin_widget is called where a live child of the declared type is.
BeginOnSameType ==
    /\ IsBegin
    /\ HasChildAtCursor
    /\ ArenaContains(nodes, ChildAtCursor)
    /\ ArenaGet(nodes, ChildAtCursor).widget.type = BeginType

\* begin_widget is called where a live child of another type is.
BeginOnOtherType ==
    /\ IsBegin
    /\ HasChildAtCursor
    /\ ArenaContains(nodes, ChildAtCursor)
    /\ ArenaGet(nodes, ChildAtCursor).widget.type /= BeginType

(* ------------------------------- claims ------------------------------- *)

\* C1. Reuse in place: begin_widget::<T> at a cursor where a live child of
\* type T is returns that child's id, creates and destroys no node (the
\* live ids and the removed list are unchanged), runs the update with the
\* child's own cursor at 0, and advances the parent's cursor by exactly one.
C1_ReuseInPlace ==
    [][BeginOnSameType =>
        /\ ~panicked'
        /\ last'.id = ChildAtCursor
        /\ stack' = Append(stack, ChildAtCursor)
        /\ LiveIds(nodes') = LiveIds(nodes)
        /\ ArenaLen(nodes') = ArenaLen(nodes)
        /\ removed_nodes' = removed_nodes
        /\ last'.at_update = 0
        /\ ArenaGet(nodes', ChildAtCursor).next_child = 0
        /\ ArenaGet(nodes', current).next_child = Cursor + 1]_vars

\* A node that had children is reused, its cursor back at zero.
C1_Witness ==
    /\ last.op = "begin"
    /\ last.path = "reuse"
    /\ ArenaGet(nodes, last.id).children /= << >>
    /\ ArenaGet(nodes, last.id).next_child = 0

\* C2. Type-mismatch replacement: begin_widget::<B> at a cursor where a live
\* child of another type is leaves that child and all its descendants out
\* of the tree (contains / get do not find them) and in the removed list,
\* and returns a new id, different from the old one, whose node has no
\* children and holds a B that was default-built and then updated.
C2_Replacement ==
    [][BeginOnOtherType =>
        /\ ~panicked'
        /\ \A d \in Subtree(nodes, ChildAtCursor) :
              /\ ~contains(d)'
              /\ ~get(d)'.some
              /\ d \in removed_ids'
        /\ last'.id /= ChildAtCursor
        /\ last'.id \notin LiveIds(nodes) \cup ever_destroyed
        /\ ArenaContains(nodes', last'.id)
        /\ ArenaGet(nodes', last'.id).children = << >>
        /\ last'.detached = NewWidget(BeginType)
        /\ ArenaGet(nodes', last'.id).widget = UpdateWidget(NewWidget(BeginType), BeginProps)]_vars

\* A child that had a child of its own has been replaced.
C2_Witness ==
    /\ last.op = "begin"
    /\ last.path = "replace"
    /\ Cardinality(destroyed) >= 2
    /\ last.old \in destroyed

\* C3. Replacement keeps the position: when the child at index i is replaced
\* because of a type mismatch, the new id is stored at index i of the
\* parent's child list and the other entries stay as they were.
C3_ReplacementKeepsPosition ==
    [][BeginOnOtherType =>
        ArenaGet(nodes', current).children =
            [ArenaGet(nodes, current).children EXCEPT ![Cursor + 1] = last'.id]]_vars


\* The calls of a frame have all returned and the tree is between frames.
BetweenFrames == phase = "idle" /\ ~panicked

\* C4. No dangling children: after any sequence of frames, every id in the
\* child list of a live node is itself live.
C4_NoDanglingChildren ==
    BetweenFrames =>
        \A id \in LiveIds(nodes) :
            \A c \in Range(ArenaGet(nodes, id).children) : contains(c)

\* C5. Exactly one parent: after any sequence of frames, every live node but
\* the root names a live parent whose child list holds it exactly once, no
\* other child list holds it, and every live node is reachable from the root.
C5_ExactlyOneParent ==
    BetweenFrames =>
        /\ \A n \in LiveIds(nodes) \ {root} :
              LET p == ArenaGet(nodes, n).parent
              IN  /\ contains(p)
                  /\ Occurrences(ArenaGet(nodes, p).children, n) = 1
                  /\ \A m \in LiveIds(nodes) \ {p} :
                        n \notin Range(ArenaGet(nodes, m).children)
        /\ LiveIds(nodes) \subseteq Subtree(nodes, root)

\* The widget end_widget is called for in this step, and its node before.
Ended == stack[Len(stack)]

EndedNode == ArenaGet(nodes, Ended)

\* C6. Pruning correctness: after end_widget(id) returns, every child of id
\* that was at an index >= id's final cursor is, with all its descendants,
\* out of the tree and in the removed list, and id's child list is exactly
\* the children declared this frame.
C6_Pruning ==
    [][(IsEnd /\ ~panicked') =>
        /\ \A i \in (EndedNode.next_child + 1)..Len(EndedNode.children) :
              \A d \in Subtree(nodes, EndedNode.children[i]) :
                  /\ ~contains(d)'
                  /\ d \in removed_ids'
        /\ ArenaGet(nodes', Ended).children = declared[Len(declared)]]_vars

\* C7. The removed list covers the whole frame: after finish() returns, the
\* removed list holds every id destroyed since the preceding start().
C7_RemovedCoversFrame ==
    (BetweenFrames /\ last.op = "finish") => destroyed \subseteq removed_ids

\* This step is an end_widget(id) called out of turn.
IsUnbalancedEnd == last'.path = "unbalanced" /\ last' /= last

\* C11. Unbalanced nesting is fatal: end_widget(id) called when the stack is
\* empty, or when the id on top of the stack is not id, panics, and no child
\* has been pruned by then: no node is destroyed and the removed list is
\* what it was.
C11_UnbalancedIsFatal ==
    [][IsUnbalancedEnd =>
        /\ panicked'
        /\ last'.op = "panic"
        /\ nodes' = nodes
        /\ LiveIds(nodes') = LiveIds(nodes)
        /\ destroyed' = destroyed
        /\ removed_nodes' = removed_nodes]_vars

\* end_widget was called for a widget that is not on top of the stack and
\* has children beyond its cursor, which a trim would have destroyed.
C11_Witness ==
    /\ panicked
    /\ last.path = "unbalanced"
    /\ contains(last.id)
    /\ ArenaGet(nodes, last.id).next_child < Len(ArenaGet(nodes, last.id).children)

\* C12. current() is the top of the stack, or the root: when begin_widget
\* has entered a widget and its update runs, current() is that widget's id,
\* and after the matching end_widget current() is again what it was before
\* the begin_widget.
C12_Current ==
    [][/\ (IsBegin /\ ~panicked') =>
             /\ current' = last'.id
             /\ current' = updating'[Len(updating')].id
             /\ entered_from'[Len(entered_from')] = current
       /\ (IsEnd /\ ~panicked') =>
             /\ Ended = current
             /\ current' = entered_from[Len(entered_from)]
             /\ current' = IF Len(stack) > 1 THEN stack[Len(stack) - 1] ELSE root]_vars

\* Inside a widget's update a child has been begun and ended: current() is
\* the widget again.
C12_Witness ==
    /\ last.op = "end"
    /\ updating /= << >>
    /\ Len(stack) = 2
    /\ current = updating[Len(updating)].id

\* C13. Reentrant access fails fast: while a widget's event handler runs,
\* invoked through fire_event with the node storage mutably borrowed, a call
\* the handler makes into the Dom (get, get_mut, begin_widget, end_widget,
\* finish) panics at once: the borrow is still the handler's caller's alone,
\* the tree is what it was, and the event in whose handler the call was
\* made is the last one delivered and the first one that widget got.
C13_ReentrantAccessFailsFast ==
    [][(called'.nested /\ ~panicked) =>
        /\ panicked'
        /\ borrow' = "mut"
        /\ nodes' = nodes
        /\ removed_nodes' = removed_nodes
        /\ ever_destroyed' = ever_destroyed
        /\ called'.log /= << >>
        /\ \A k \in 1..(Len(called'.log) - 1) :
              called'.log[k].id /= called'.log[Len(called'.log)].id]_vars

\* A MouseEnter handler called into the Dom after another widget had been
\* entered in the same move.
C13_Witness ==
    /\ called.nested
    /\ panicked
    /\ called.op = "CursorMoved"
    /\ Len(called.log) >= 2
    /\ called.log[Len(called.log)].event = MouseEnter
    /\ called.log[Len(called.log) - 1].event = MouseEnter

\* C14. Detach, update, reattach: while a widget's update runs its node
\* holds the placeholder and the DomInner is not borrowed, so that no call
\* made from inside the update fails on a borrow; when begin_widget returns
\* the node holds the updated widget of type T; and whenever the stack is
\* empty no live node holds the placeholder.
C14_DetachUpdateReattach ==
    /\ \A k \in 1..Len(updating) :
          /\ contains(updating[k].id)
          /\ ArenaGet(nodes, updating[k].id).widget = DummyWidget
    /\ borrow = "free"
    /\ last.path /= "borrow"
    /\ last.op = "return" =>
          ArenaGet(nodes, last.id).widget = [type |-> last.T, props |-> last.props]
    /\ (stack = << >> /\ ~panicked) =>
          \A id \in LiveIds(nodes) : ArenaGet(nodes, id).widget /= DummyWidget

\* A widget reused from the frame before is being updated inside the update
\* of its parent.
C14_Witness ==
    /\ ~panicked
    /\ Len(updating) = 2
    /\ last.op = "begin"
    /\ last.path = "reuse"

\* The deliveries of the last call: who got which event, in order.
Delivered == [i \in 1..Len(called.log) |-> << called.log[i].id, called.log[i].event >>]

\* What start() has to deliver for a selection cur after a selection lst.
FocusDeliveries(cur, lst) ==
    (IF cur = NoId THEN << >> ELSE << << cur, FocusChanged(TRUE) >> >>)
    \o (IF lst = NoId THEN << >> ELSE << << lst, FocusChanged(FALSE) >> >>)

\* This step is a call of InputState::start().
IsInputStart == ~panicked /\ called'.op = "start"

\* C15. Focus change at frame start: when start() returns, it has delivered
\* nothing if the selection was the previous-frame selection; otherwise
\* FocusChanged(true) to the selected widget (if any) and then
\* FocusChanged(false) to the previously selected one (if any), and nothing
\* else; the selection is unchanged and the previous-frame selection is
\* equal to it.
C15_FocusChangeAtStart ==
    [][(IsInputStart /\ ~panicked') =>
        /\ Delivered' = IF input.selection = input.last_selection THEN << >>
                        ELSE FocusDeliveries(input.selection, input.last_selection)
        /\ input'.selection = input.selection
        /\ input'.last_selection = input.selection
        /\ input' = [input EXCEPT !.last_selection = input.selection]]_vars

\* start() has told one widget that it gained the focus and then another
\* that it lost it.
C15_Witness ==
    /\ ~panicked
    /\ called.op = "start"
    /\ Len(called.log) = 2
    /\ called.log[1].event = FocusChanged(TRUE)
    /\ called.log[2].event = FocusChanged(FALSE)
    /\ input.last_selection = called.log[1].id

\* C16. Focus change from a removed widget is not fatal: when the selection
\* went from X to a live Y and X has been destroyed since, start() delivers
\* FocusChanged(true) to Y and nothing to X, does not panic, and commits Y
\* as the previous-frame selection.
C16_FocusFromRemoved ==
    [][(/\ IsInputStart
        /\ input.selection /= input.last_selection
        /\ input.selection /= NoId
        /\ contains(input.selection)
        /\ input.last_selection /= NoId
        /\ ~contains(input.last_selection)) =>
        /\ ~panicked'
        /\ Delivered' = << << input.selection, FocusChanged(TRUE) >> >>
        /\ input'.last_selection = input.selection]_vars

\* The ids the InputState refers to: the selection and the entered lists.
InputRefs ==
    (IF input.selection = NoId THEN {} ELSE {input.selection})
    \cup Range(input.mouse_entered) \cup Range(input.mouse_entered_and_sunk)

\* C17. Input bookkeeping is purged with the tree: once the frame that
\* destroyed a widget is over (the tree's frame has finished and the
\* InputState's finish() has run), the selection is not the destroyed id
\* and the id is in neither the entered nor the entered-and-sunk list.
C17_PurgedWithTree ==
    (~panicked /\ called.op = "finish") => InputRefs \cap ever_destroyed = {}

\* A pointer-move cycle has ended.
AfterMove == ~panicked /\ called.op = "CursorMoved"

\* No id twice.
NoDuplicates(seq) == Cardinality(Range(seq)) = Len(seq)

\* C18. Hover set containment: after handle_event(CursorMoved) returns,
\* entered-and-sunk is a subset of entered, entered is a subset of the
\* hit-test result just computed, and neither list holds an id twice.
C18_HoverContainment ==
    AfterMove =>
        /\ input.mouse_hit = IF input.position = NoPoint THEN << >>
                             ELSE hit_test(layout, input.position)
        /\ Range(input.mouse_entered_and_sunk) \subseteq Range(input.mouse_entered)
        /\ Range(input.mouse_entered) \subseteq Range(input.mouse_hit)
        /\ NoDuplicates(input.mouse_entered)
        /\ NoDuplicates(input.mouse_entered_and_sunk)

\* The pointer is over three widgets, of which two are entered, and one of
\* these has sunk its MouseEnter.
C18_Witness ==
    /\ AfterMove
    /\ Len(input.mouse_hit) = 3
    /\ Len(input.mouse_entered) = 2
    /\ Len(input.mouse_entered_and_sunk) = 1

\* The events of the last call that went down the hit list: the button
\* events with inside = true, and the scroll events.
InsideLog ==
    SelectSeq(called.log,
              LAMBDA e : e.event.kind = "MouseScroll"
                         \/ (e.event.kind = "MouseButtonChanged" /\ e.event.flag))

\* The hit-test set's widgets that are in the Dom, in hit-test order.
LiveHits == SelectSeq(input.mouse_hit, LAMBDA id : contains(id))

\* A button or scroll event has been handled.
AfterButtonOrScroll == ~panicked /\ called.op \in {"MouseButtonChanged", "MouseScroll"}

\* C19. Sink stops propagation: a button (inside) or scroll event goes to
\* the live widgets of the hit-test set in hit-test order, up to and
\* including the first whose handler returns Sink; the widgets after it get
\* nothing; and the response is Sink exactly when a widget sank the event.
C19_SinkStopsPropagation ==
    AfterButtonOrScroll =>
        LET n == Len(InsideLog)
        IN  /\ n <= Len(LiveHits)
            /\ \A i \in 1..n : InsideLog[i].id = LiveHits[i]
            /\ \A i \in 1..(n - 1) : InsideLog[i].response = "Bubble"
            /\ n < Len(LiveHits) => InsideLog[n].response = "Sink"
            /\ called.response = "Sink" <=> \E i \in 1..n : InsideLog[i].response = "Sink"

\* Of three hit widgets the middle one sank a button event.
C19_Witness ==
    /\ AfterButtonOrScroll
    /\ called.op = "MouseButtonChanged"
    /\ Len(LiveHits) = 3
    /\ Len(InsideLog) = 2
    /\ called.response = "Sink"

\* How many button events with inside = false the last call gave id.
OutsideEvents(id) ==
    Cardinality({i \in 1..Len(called.log) :
                    /\ called.log[i].id = id
                    /\ called.log[i].event.kind = "MouseButtonChanged"
                    /\ ~called.log[i].event.flag})

\* id is in the Dom and declared MOUSE_OUTSIDE interest to the layout.
WantsOutside(id) ==
    /\ contains(id)
    /\ LayoutGet(layout, id)
    /\ "MOUSE_OUTSIDE" \in layout.nodes[id].event_interest

\* C20. Outside button notification: on a button change every live widget
\* with MOUSE_OUTSIDE interest that is not in the hit-test set gets exactly
\* one button event with inside = false, whether or not the inside event
\* was sunk; no other widget, and none in the hit-test set, gets one.
C20_OutsideNotification ==
    (~panicked /\ called.op = "MouseButtonChanged") =>
        \A id \in KnownIds :
            OutsideEvents(id) =
                IF WantsOutside(id) /\ id \notin Range(input.mouse_hit) THEN 1 ELSE 0

\* A hit widget sank a button event and a widget outside was told of it.
C20_Witness ==
    /\ ~panicked
    /\ called.op = "MouseButtonChanged"
    /\ called.response = "Sink"
    /\ \E id \in KnownIds : OutsideEvents(id) = 1

\* This step is a pointer move.
IsMove == ~panicked /\ called'.op = "CursorMoved"

\* The widgets a log delivers event to, and how often it does to id.
Receivers(log, event) == {log[i].id : i \in {k \in 1..Len(log) : log[k].event = event}}

Count(log, id, event) ==
    Cardinality({i \in 1..Len(log) : log[i].id = id /\ log[i].event = event})

\* The entries of a list that come after id.
After(seq, id) == {seq[k] : k \in {j \in 1..Len(seq) : \E i \in 1..(j - 1) : seq[i] = id}}

\* C21. Hover stickiness: a widget that has sunk MouseEnter stays in
\* entered-and-sunk on every later pointer move that still hits it, gets no
\* second MouseEnter, and no widget after it in hit-test order gets
\* MouseEnter; on the move that no longer hits it it gets MouseLeave and is
\* taken out of entered-and-sunk.
C21_HoverStickiness ==
    [][(IsMove /\ ~panicked') =>
        \A w \in Range(input.mouse_entered_and_sunk) :
            IF w \in Range(input'.mouse_hit)
            THEN /\ w \in Range(input'.mouse_entered_and_sunk)
                 /\ w \notin Receivers(called'.log, MouseEnter)
                 /\ After(input'.mouse_hit, w) \cap Receivers(called'.log, MouseEnter) = {}
                 /\ After(input'.mouse_hit, w) \cap Range(input'.mouse_entered)
                       \subseteq Range(input.mouse_entered)
            ELSE /\ w \notin Range(input'.mouse_entered_and_sunk)
                 /\ contains(w) => Count(called'.log, w, MouseLeave) = 1]_vars

\* A move that still hits a widget that sank MouseEnter on an earlier move,
\* with a widget beneath it that is hit and not entered.
C21_Witness ==
    /\ ~panicked
    /\ called.op = "CursorMoved"
    /\ \E w \in Range(input.mouse_entered_and_sunk) :
          /\ w \in Range(input.mouse_hit)
          /\ w \notin Receivers(called.log, MouseEnter)
          /\ After(input.mouse_hit, w) \ Range(input.mouse_entered) /= {}

\* This step is a key or text event.
IsKey == ~panicked /\ called'.op \in {"KeyChanged", "TextInput"}

\* The layout knows id and id declared the keyboard interest in it.
WantsKeyboard(id) ==
    /\ id /= NoId
    /\ LayoutGet(layout, id)
    /\ "FOCUSED_KEYBOARD" \in layout.nodes[id].event_interest

\* C22. Keyboard routing: a key-changed or text-input event is delivered to
\* at most one widget, the selected one, and only if it declared
\* FOCUSED_KEYBOARD; with no selection, or a selected widget without that
\* interest, nobody gets the event and the response is Bubble.
C22_KeyboardRouting ==
    [][IsKey =>
        /\ ~panicked'
        /\ Len(called'.log) <= 1
        /\ \A i \in 1..Len(called'.log) :
              /\ called'.log[i].id = input.selection
              /\ called'.log[i].event.kind = called'.op
              /\ WantsKeyboard(input.selection)
        /\ ~WantsKeyboard(input.selection) =>
              /\ called'.log = << >>
              /\ called'.response = "Bubble"
        /\ WantsKeyboard(input.selection) =>
              /\ Len(called'.log) = 1
              /\ called'.response = called'.log[1].response]_vars

\* This step is a raw button input.
IsButton == ~panicked /\ called'.op = "MouseButtonChanged"

\* The states of a button, and the state of one the map does not hold yet.
ButtonStates == {"Up", "JustDown", "Down", "JustUp"}

Seen(state) == IF state = "Missing" THEN "Up" ELSE state

\* C23. Button edge detection: a button not yet seen is Up; an input whose
\* down flag equals the button's is_down leaves the state as it is (down
\* then down is no new edge); a down input while not down sets JustDown, an
\* up input while down sets JustUp; is_down holds exactly for JustDown and
\* Down.
C23_ButtonEdges ==
    [][IsButton =>
        LET button == called'.args[1]
            down == called'.args[2]
            before == Seen(input.buttons[button])
            after == input'.buttons[button]
        IN  /\ after \in ButtonStates
            /\ (down = (before \in {"JustDown", "Down"})) => after = before
            /\ (down /\ before \in {"Up", "JustUp"}) => after = "JustDown"
            /\ (~down /\ before \in {"JustDown", "Down"}) => after = "JustUp"
            /\ \A b \in MouseButtons \ {button} : input'.buttons[b] = input.buttons[b]
            /\ \A state \in ButtonStates : is_down(state) <=> state \in {"JustDown", "Down"}
            /\ ~is_down(Seen("Missing"))]_vars

\* A down input has arrived for a button that was already down, and has
\* left it Down.
C23_Witness ==
    /\ ~panicked
    /\ called.op = "MouseButtonChanged"
    /\ called.args[2]
    /\ input.buttons[called.args[1]] = "Down"

\* This step is InputState::finish().
IsFinish == ~panicked /\ called'.op = "finish"

\* C24. Frame-end settling: finish() takes every button from JustDown to
\* Down and from JustUp to Up and leaves Down and Up alone, so that no
\* button is in a Just* state afterwards, is_down of no button changes, and
\* a second finish() changes nothing.
C24_FrameEndSettling ==
    [][IsFinish =>
        /\ \A b \in MouseButtons :
              LET before == input.buttons[b]
                  after == input'.buttons[b]
              IN  /\ before = "JustDown" => after = "Down"
                  /\ before = "JustUp" => after = "Up"
                  /\ before \notin {"JustDown", "JustUp"} => after = before
                  /\ after \notin {"JustDown", "JustUp"}
                  /\ is_down(after) = is_down(before)
        /\ settle_buttons(input') = input'
        /\ input' = [input EXCEPT !.buttons = input'.buttons]]_vars

\* finish() has run with a button held down since an earlier frame and the
\* pointer over a widget.
C24_Witness ==
    /\ ~panicked
    /\ called.op = "finish"
    /\ \E b \in MouseButtons : input.buttons[b] = "Down"
    /\ input.mouse_entered /= << >>

\* The nodes on the clipped_by chain of id.
RECURSIVE ClippedBy(_, _)
ClippedBy(lay, id) ==
    IF lay.nodes[id].clipped_by = NoId THEN {}
    ELSE {lay.nodes[id].clipped_by} \cup ClippedBy(lay, lay.nodes[id].clipped_by)

\* The widgets that declared a pointer interest, and where they are in the
\* layout traversal.
Candidates == {layout.interest_mouse[i].id : i \in 1..Len(layout.interest_mouse)}

TraversalIndex(id) == CHOOSE i \in 1..Len(layout.interest_mouse) : layout.interest_mouse[i].id = id

\* The pointer is in id's rectangle and in that of every node that clips it.
UnderPointer(id) ==
    /\ input.position /= NoPoint
    /\ input.position \in layout.nodes[id].rect
    /\ \A a \in ClippedBy(layout, id) : input.position \in layout.nodes[a].rect

\* C25. Hit test: the hit-test result is exactly the widgets that declared
\* pointer interest and whose rectangle, cut by the rectangles of all nodes
\* on their clipped-by chain, contains the pointer; it lists them in reverse
\* layout-traversal order, a widget before the widgets around it; without a
\* pointer position it is empty.
C25_HitTest ==
    AfterMove =>
        /\ Range(input.mouse_hit) = {id \in Candidates : UnderPointer(id)}
        /\ NoDuplicates(input.mouse_hit)
        /\ \A i, j \in 1..Len(input.mouse_hit) :
              i < j => TraversalIndex(input.mouse_hit[i]) > TraversalIndex(input.mouse_hit[j])
        /\ \A i, j \in 1..Len(input.mouse_hit) :
              input.mouse_hit[j] \in ClippedBy(layout, input.mouse_hit[i]) => i < j
        /\ input.position = NoPoint => input.mouse_hit = << >>

\* The pointer is over a widget and in the rectangle of a widget inside it
\* that its parent clips away.
C25_Witness ==
    /\ AfterMove
    /\ input.mouse_hit /= << >>
    /\ \E id \in Candidates :
          /\ input.position \in layout.nodes[id].rect
          /\ id \notin Range(input.mouse_hit)

\* This step is a call into context.rs, and which.
IsContextCall(op) ==
    /\ ~panicked
    /\ context_call'.op = op
    /\ context_call' /= context_call \/ context' /= context

Called == context_call'.storage

\* C26. Single-owner binding: at most one Dom and one InputState are bound
\* on the thread at a time: a bind while one is bound panics and the bound
\* one stays; dom() / input() and unbind while none is bound panic; after
\* an unbind that returned, a bind succeeds.
C26_SingleOwnerBinding ==
    [][/\ (IsContextCall("bind") /\ context[Called].value /= NoValue) =>
             /\ panicked'
             /\ context' = context
       /\ (IsContextCall("bind") /\ context[Called].value = NoValue) =>
             /\ ~panicked'
             /\ context'[Called].value = context_call'.value
             /\ \A s \in Storages \ {Called} : context'[s] = context[s]
       /\ (IsContextCall("borrow") /\ context[Called].value = NoValue) =>
             /\ panicked'
             /\ context' = context
       /\ (IsContextCall("unbind") /\ context[Called].value = NoValue) =>
             /\ panicked'
             /\ context' = context
       /\ (IsContextCall("unbind") /\ ~panicked') =>
             /\ context'[Called] = EmptyStorage
             /\ \A value \in ContextValues :
                   bind(context'[Called], value) =
                       [panic |-> FALSE, cell |-> [EmptyStorage EXCEPT !.value = value]]]_vars

\* A second Dom or InputState was bound while the first was in place.
C26_Witness ==
    /\ panicked
    /\ context_call.op = "bind"
    /\ context[context_call.storage].value \in ContextValues \ {context_call.value}

\* The place of an event of a pointer move among its steps.
StepOf(event) ==
    CASE event = MouseMoved -> 2
      [] event = MouseEnter -> 4
      [] event = MouseLeave -> 5
      [] OTHER -> 0

\* The widgets that declared to the layout that they want every move.
WantsMove == {id \in DOMAIN layout.nodes : "MOUSE_MOVE" \in layout.nodes[id].event_interest}

\* C27. Pointer-move step order: a pointer move stores the new position,
\* delivers MouseMoved to every widget that declared MOUSE_MOVE, over it or
\* not, recomputes the hit test, delivers the MouseEnter events and then the
\* MouseLeave events: MouseMoved comes before every Enter and Leave of the
\* move, and the response is Bubble.
C27_MoveStepOrder ==
    [][IsMove =>
        /\ ~panicked'
        /\ input'.position = called'.args[1]
        /\ \A i \in 1..Len(called'.log) : StepOf(called'.log[i].event) /= 0
        /\ \A i, j \in 1..Len(called'.log) :
              i < j => StepOf(called'.log[i].event) <= StepOf(called'.log[j].event)
        /\ Receivers(called'.log, MouseMoved) = WantsMove
        /\ \A id \in WantsMove : Count(called'.log, id, MouseMoved) = 1
        /\ Receivers(called'.log, MouseEnter) \subseteq Range(input'.mouse_hit)
        /\ Receivers(called'.log, MouseLeave) \cap Range(input'.mouse_hit) = {}
        /\ called'.response = "Bubble"]_vars

\* One move told a widget it is not over of the move, entered a widget and
\* left another.
C27_Witness ==
    /\ ~panicked
    /\ called.op = "CursorMoved"
    /\ Receivers(called.log, MouseMoved) \ Range(input.mouse_hit) /= {}
    /\ Receivers(called.log, MouseEnter) /= {}
    /\ Receivers(called.log, MouseLeave) /= {}

\* C28. Removal before re-addition: within a pointer-move cycle the widgets
\* that are no longer hit are taken out of the entered sets, and get their
\* MouseLeave, before the newly hit widgets are put into the entered set and
\* get their MouseEnter.
C28_RemovalBeforeAddition ==
    [][IsMove =>
        \A i, j \in 1..Len(called'.log) :
            (called'.log[i].event = MouseLeave /\ called'.log[j].event = MouseEnter) => i < j]_vars

\* The MouseEnter deliveries of a log.
Enters(log) == SelectSeq(log, LAMBDA e : e.event = MouseEnter)

\* C29. Enter goes to the newly hit and stops at a sinker: in a pointer-move
\* cycle a live hit widget gets MouseEnter only if it is not in the entered
\* set already; when the handler of a newly entered widget returns Sink the
\* widget is put into entered-and-sunk, and no widget after it in hit-test
\* order gets MouseEnter or is put into the entered set in that cycle.
C29_EnterNewUntilSunk ==
    [][(IsMove /\ ~panicked') =>
        /\ \A i \in 1..Len(Enters(called'.log)) :
              LET e == Enters(called'.log)[i]
              IN  /\ e.id \in Range(input'.mouse_hit)
                  /\ contains(e.id)
                  /\ e.id \notin Range(input.mouse_entered)
                  /\ Count(called'.log, e.id, MouseEnter) = 1
                  /\ e.id \in Range(input'.mouse_entered)
                  /\ e.response = "Sink" =>
                        /\ i = Len(Enters(called'.log))
                        /\ e.id \in Range(input'.mouse_entered_and_sunk)
                        /\ After(input'.mouse_hit, e.id) \cap Receivers(called'.log, MouseEnter) = {}
                        /\ After(input'.mouse_hit, e.id) \cap Range(input'.mouse_entered)
                              \subseteq Range(input.mouse_entered)
                  /\ e.response = "Bubble" => e.id \notin Range(input'.mouse_entered_and_sunk)
        /\ Range(input'.mouse_entered) \ Range(input.mouse_entered)
              = Receivers(called'.log, MouseEnter)]_vars

\* A move entered a widget that let the event bubble and then one that sank
\* it, and a hit widget beneath them was not entered.
C29_Witness ==
    /\ ~panicked
    /\ called.op = "CursorMoved"
    /\ Len(Enters(called.log)) = 2
    /\ Enters(called.log)[1].response = "Bubble"
    /\ Enters(called.log)[2].response = "Sink"
    /\ After(input.mouse_hit, Enters(called.log)[2].id) \ Range(input.mouse_entered) /= {}

\* C30. Leave on no longer hit: at the end of a pointer-move cycle every
\* widget that was in the entered set and is not in the new hit-test set is
\* out of the entered and the entered-and-sunk sets and has got exactly one
\* MouseLeave if it is live, and none, without a failure, if it was
\* destroyed; when the pointer position becomes absent all entered widgets
\* are left and both sets are empty.
C30_LeaveWhenNoLongerHit ==
    [][IsMove =>
        /\ ~panicked'
        /\ \A w \in Range(input.mouse_entered) \ Range(input'.mouse_hit) :
              /\ w \notin Range(input'.mouse_entered)
              /\ w \notin Range(input'.mouse_entered_and_sunk)
              /\ Count(called'.log, w, MouseLeave) = IF contains(w) THEN 1 ELSE 0
        /\ Receivers(called'.log, MouseLeave)
              \subseteq Range(input.mouse_entered) \ Range(input'.mouse_hit)
        /\ called'.args[1] = NoPoint =>
              /\ input'.mouse_entered = << >>
              /\ input'.mouse_entered_and_sunk = << >>
              /\ Receivers(called'.log, MouseLeave)
                    = {w \in Range(input.mouse_entered) : contains(w)}]_vars

\* The pointer has gone away from two widgets it was over, one of which had
\* sunk MouseEnter.
C30_Witness ==
    /\ ~panicked
    /\ called.op = "CursorMoved"
    /\ called.args[1] = NoPoint
    /\ Cardinality(Receivers(called.log, MouseLeave)) >= 2
    /\ input.mouse_entered = << >>

\* The calls that deliver events, and a step that is one of them.
DeliveringCalls ==
    {"start", "CursorMoved", "MouseButtonChanged", "MouseScroll", "KeyChanged", "TextInput"}

IsDelivery == ~panicked /\ called'.op \in DeliveringCalls

\* C31. Event delivery re-enters the target: for every event delivered to a
\* widget id, whatever its kind, id is on top of the traversal stack while
\* the widget's event routine runs, so that current() is id there, and is
\* popped afterwards; when handle_event or start() has returned the stack
\* is what it was before the call.
C31_DeliveryReentersTarget ==
    [][(IsDelivery /\ ~panicked') =>
        /\ \A i \in 1..Len(called'.log) : called'.log[i].current = called'.log[i].id
        /\ stack' = stack
        /\ current' = current]_vars

\* start() has told two widgets of a change of focus, each from inside its
\* own scope.
C31_Witness ==
    /\ ~panicked
    /\ called.op = "start"
    /\ Len(called.log) = 2
    /\ called.log[1].current = input.selection
    /\ called.log[2].current /= called.log[1].current
    /\ stack = << >>

\* A step that is Dom::start() / Dom::finish().
IsStartStep == ~panicked /\ phase = "idle" /\ phase' = "building"

IsFinishStep == ~panicked /\ phase = "building" /\ phase' = "idle"

\* The root's children from its cursor on, as finish() finds them.
RootUndeclared ==
    LET node == ArenaGet(nodes, root)
    IN  {node.children[i] : i \in (node.next_child + 1)..Len(node.children)}

\* start() sets the root's cursor to zero and changes nothing else.
C32_StartResets ==
    [][IsStartStep =>
        /\ nodes' = ArenaSet(nodes, root, [ArenaGet(nodes, root) EXCEPT !.next_child = 0])
        /\ stack' = stack
        /\ removed_nodes' = removed_nodes]_vars

\* finish() destroys the root's children from its cursor on with all their
\* descendants.
C32_FinishDestroys ==
    [][IsFinishStep =>
        \A c \in RootUndeclared : Subtree(nodes, c) \cap LiveIds(nodes') = {}]_vars

\* A frame of start() and finish() alone leaves the root alone in the tree.
C32_EmptyFrame ==
    [][(IsFinishStep /\ decl = << >>) => LiveIds(nodes') = {root}]_vars

\* The root is never destroyed and never has a parent.
C32_RootStays ==
    /\ ArenaContains(nodes, root)
    /\ ArenaGet(nodes, root).parent = NoId
    /\ root \notin ever_destroyed

\* C32. Frame boundaries: start() resets the root's cursor and changes
\* nothing else; finish() destroys every root child at an index >= the
\* root's cursor with its descendants, so that a frame of start() and
\* finish() with no declarations leaves only the root; the root is never
\* destroyed and never has a parent.
C32_FrameBoundaries ==
    /\ []C32_RootStays
    /\ C32_StartResets
    /\ C32_FinishDestroys
    /\ C32_EmptyFrame

\* C33. Well-formed use never crashes the reconciler: any sequence of frames
\* of start(), properly nested begin_widget / end_widget pairs of arbitrary
\* widget types and finish() runs without a panic, the frames after a
\* type-mismatch replacement included.
C33_NoPanic == ~panicked

\* C34. The removed list has no duplicates: between two clears of the list
\* every destroyed id is recorded in it exactly once, whether trim_children
\* or remove_recursive destroyed it.
C34_RemovedOnce ==
    ~panicked =>
        /\ NoDuplicates(removed_nodes)
        /\ phase = "building" =>
              \A id \in destroyed : Occurrences(removed_nodes, id) = 1

\* C35. Enter and Leave alternate: over any sequence of pointer moves the
\* MouseEnter and MouseLeave events delivered to a widget alternate and
\* begin with MouseEnter: both go to widgets in the Dom only (whose ids no
\* later widget gets), no MouseEnter goes to a widget whose last MouseEnter
\* no MouseLeave has followed, and no MouseLeave goes to a widget without
\* such a MouseEnter.
C35_EnterLeaveAlternate ==
    [][\A i \in 1..Len(called'.log) :
          LET e == called'.log[i]
              before == HoverAfter(hovered, SubSeq(called'.log, 1, i - 1))
          IN  /\ e.event = MouseEnter => e.id \in LiveIds(nodes) /\ e.id \notin before
              /\ e.event = MouseLeave => e.id \in LiveIds(nodes) /\ e.id \in before]_vars

\* One move has entered a widget and left another.
C35_Witness ==
    /\ AfterMove
    /\ \E a, b \in Widgets :
          /\ a /= b
          /\ Count(called.log, a, MouseEnter) = 1
          /\ Count(called.log, b, MouseLeave) = 1
          /\ a \in hovered
          /\ b \notin hovered

\* A step that is set_selection.
IsSetSelection == ~panicked /\ called'.op = "set_selection"

\* How many entries of a log carry event.
CountEvent(log, event) == Cardinality({i \in 1..Len(log) : log[i].event = event})

\* C36. Focus notifications are deferred and coalesced: set_selection
\* delivers nothing and leaves the committed selection alone; a start() that
\* returns delivers FocusChanged events only, at most one true and one
\* false, the true one to the selection of that moment and the false one to
\* the committed selection, and nothing when the two are equal, whatever
\* was selected in between.
C36_FocusDeferredCoalesced ==
    [][/\ IsSetSelection =>
            /\ called'.log = << >>
            /\ input'.last_selection = input.last_selection
       /\ (IsInputStart /\ ~panicked') =>
            /\ CountEvent(called'.log, FocusChanged(TRUE)) <= 1
            /\ CountEvent(called'.log, FocusChanged(FALSE)) <= 1
            /\ \A i \in 1..Len(called'.log) :
                  \/ /\ called'.log[i].event = FocusChanged(TRUE)
                     /\ called'.log[i].id = input.selection
                  \/ /\ called'.log[i].event = FocusChanged(FALSE)
                     /\ called'.log[i].id = input.last_selection
            /\ input.selection = input.last_selection => called'.log = << >>]_vars

\* The selection went from a committed widget to another and back between
\* two calls of start(), and the second start() has delivered nothing.
C36_Witness ==
    /\ ~panicked
    /\ called.op = "start"
    /\ Len(called.args) = 2
    /\ called.args[1] \in Widgets
    /\ called.args[2] \in Widgets
    /\ called.args[1] /= called.args[2]
    /\ input.last_selection = called.args[2]
    /\ called.log = << >>

\* C37. Button events are dispatched on every raw input: a mouse-button
\* input, whether it changes the button's edge state or not, delivers the
\* inside event down the hit list of the most recent pointer move, first to
\* its first widget in the Dom, and the outside event to every widget in the
\* Dom that declared MOUSE_OUTSIDE and is not in that list; the list is not
\* recomputed.
C37_ButtonEveryInput ==
    [][(IsButton /\ ~panicked') =>
        LET down == called'.args[2]
            log == called'.log
            inside == MouseButtonChangedEv(down, TRUE)
            outside == MouseButtonChangedEv(down, FALSE)
        IN  /\ input'.mouse_hit = input.mouse_hit
            /\ \A i \in 1..Len(log) : log[i].event \in {inside, outside}
            /\ LiveHits /= << >> =>
                  /\ log /= << >>
                  /\ log[1].id = LiveHits[1]
                  /\ log[1].event = inside
            /\ Receivers(log, inside) \subseteq Range(input.mouse_hit)
            /\ Receivers(log, outside) =
                  {id \in KnownIds : WantsOutside(id) /\ id \notin Range(input.mouse_hit)}]_vars

\* A button that was down already went down again, and the widget that was
\* told is one the pointer is no longer over since the last frame.
C37_Witness ==
    /\ ~panicked
    /\ called.op = "MouseButtonChanged"
    /\ called.args[2]
    /\ input.buttons[called.args[1]] = "Down"
    /\ called.log /= << >>
    /\ called.log[1].event = MouseButtonChangedEv(TRUE, TRUE)
    /\ input.position /= NoPoint
    /\ called.log[1].id \notin Range(hit_test(layout, input.position))

\* C38. Text box editing terminates: whatever the props text, the edited
\* text and the cursor are, a move_cursor or delete that has begun returns.
C38_EditingTerminates == (textbox.pc /= "idle") ~> (textbox.pc = "idle" \/ panicked)

\* C39. Text box cursor validity: after any sequence of update(props) calls
\* and key and text-input events, the cursor is at most the byte length of
\* the text shown and on a character boundary of it, and no insertion or
\* deletion has failed.
C39_CursorValid ==
    textbox.pc = "idle" =>
        /\ ~panicked
        /\ textbox.cursor <= ByteLen(Displayed(textbox))
        /\ is_char_boundary(Displayed(textbox), textbox.cursor)

\* The cursor of a node of the arena is within its child list / at its end.
CursorWithin(ar, id) == ArenaGet(ar, id).next_child <= Len(ArenaGet(ar, id).children)

CursorAtEnd(ar, id) == ArenaGet(ar, id).next_child = Len(ArenaGet(ar, id).children)

\* C40. Cursor bound: in every reachable state the cursor of every live
\* node is at most the length of its child list, and right after
\* end_widget(id), or finish() for the root, the cursor of that node is the
\* length of its child list.
C40_CursorBound ==
    /\ [](\A id \in LiveIds(nodes) : CursorWithin(nodes, id))
    /\ [][/\ (~panicked /\ IsEnd /\ ~panicked') =>
               ArenaContains(nodes', Ended) /\ CursorAtEnd(nodes', Ended)
          /\ (IsFinishStep /\ ~panicked') => CursorAtEnd(nodes', root)]_vars

\* end_widget has cut children off a node whose cursor was in the middle of
\* its child list.
C40_Witness ==
    /\ ~panicked
    /\ last.op = "end"
    /\ destroyed /= {}
    /\ ArenaContains(nodes, last.id)
    /\ ArenaGet(nodes, last.id).next_child > 0
    /\ CursorAtEnd(nodes, last.id)
    /\ removed_nodes /= << >>

\* C10. Stale ids are detected, never aliased: an id whose node has been
\* destroyed is not contained, and get / get_mut give None for it, from then
\* on, whatever is created later in its slot.
C10_StaleIdsDetected ==
    \A id \in ever_destroyed : ~contains(id) /\ ~get(id).some

\* A destroyed node's slot is occupied again by a later node.
C10_Witness ==
    \E id \in ever_destroyed :
        /\ nodes.slots[id.index].occupied
        /\ nodes.slots[id.index].generation > id.generation


\* The frame before this one declared the same nesting and widget types,
\* and both frames have finished.
Replayed == BetweenFrames /\ prev_frame.mode = "replayed"

\* True when every node alive after the frame before is alive now, and no
\* other, each with the parent and the child list it had.
SameTreeAsBefore ==
    /\ LiveIds(nodes) = LiveIds(prev_frame.nodes)
    /\ \A id \in LiveIds(nodes) :
          /\ ArenaGet(nodes, id).parent = ArenaGet(prev_frame.nodes, id).parent
          /\ ArenaGet(nodes, id).children = ArenaGet(prev_frame.nodes, id).children

RECURSIVE MetByPosition(_, _, _, _, _)
MetByPosition(ar, d, k, path, cur) ==
    IF k > Len(d) THEN {}
    ELSE IF d[k] = EndCall
    THEN MetByPosition(ar, d, k + 1, SubSeq(path, 1, Len(path) - 1),
                       SubSeq(cur, 1, Len(cur) - 1))
    ELSE LET i == cur[Len(cur)]
             id == ArenaGet(ar, path[Len(path)]).children[i + 1]
         IN  {<< id, d[k] >>} \cup
             MetByPosition(ar, d, k + 1, Append(path, id),
                           Append([cur EXCEPT ![Len(cur)] = i + 1], 0))

=============================================================================
